---- MODULE Spec2Model ----
(***************************************************************************)
(* A model of the algolrus toolchain: typed AST, semantic analyzer,        *)
(* tree-walking interpreter, bytecode generator, stack VM, AST constant    *)
(* folder and bytecode peephole optimizer.                                 *)
(*                                                                         *)
(* Encoding notes.                                                         *)
(*  - Python values are records.  bool is a subclass of int in Python, so  *)
(*    both carry the integer n; t distinguishes them where the code does   *)
(*    (isinstance(v, bool), str(v)).                                       *)
(*  - Source keywords are Cyrillic; module strings are ASCII, so they are  *)
(*    transliterated: "cel" (int type), "log" (bool type), "i" (and),      *)
(*    "ili" (or), "ne" (not), "vyvod" (print), "uvel" (inc), "umen" (dec), *)
(*    "modul" (abs), "da"/"net" (the VM's words for true/false).           *)
(*  - else_block = None and else_block = [] are both the empty sequence:   *)
(*    every reader tests "if node.else_block".                             *)
(***************************************************************************)
EXTENDS Integers, Sequences, FiniteSets, TLC

(***************************************************************************)
(* Bounds of the model.                                                    *)
(***************************************************************************)
MaxSteps == 120
MaxFuel == 8

(***************************************************************************)
(* Python values.                                                          *)
(***************************************************************************)
IntV(n) == [t |-> "int", n |-> n]
BoolV(b) == [t |-> "bool", n |-> IF b THEN 1 ELSE 0]
NoneV == [t |-> "none"]
ListV(items) == [t |-> "list", items |-> items]
TupleV(items) == [t |-> "tuple", items |-> items]
RefV(k) == [t |-> "ref", k |-> k]

IsInt(v) == v.t \in {"int", "bool"}
IsBool(v) == v.t = "bool"

\* Python's floor division and modulo (the sign of the result of % follows
\* the divisor); b is never 0 here, the callers test it first.
PyFloorDiv(a, b) == IF b > 0 THEN a \div b ELSE (-a) \div (-b)
PyMod(a, b) == a - b * PyFloorDiv(a, b)
PyAbs(a) == IF a < 0 THEN -a ELSE a

RECURSIVE JoinStr(_, _)
JoinStr(strs, sep) ==
  IF strs = <<>> THEN ""
  ELSE IF Len(strs) = 1 THEN strs[1]
  ELSE strs[1] \o sep \o JoinStr(Tail(strs), sep)

\* str(value)
RECURSIVE PyStr(_)
PyStr(v) ==
  CASE v.t = "int" -> ToString(v.n)
    [] v.t = "bool" -> (IF v.n = 1 THEN "True" ELSE "False")
    [] v.t = "none" -> "None"
    [] v.t = "list" -> "[" \o JoinStr([i \in 1..Len(v.items) |-> PyStr(v.items[i])], ", ") \o "]"
    [] OTHER -> "?"

(***************************************************************************)
(* vm_core.py: opcodes, instructions, programs.                            *)
(***************************************************************************)
\* The members of the OpCode enum, by name.
OpCode ==
  {"PUSH_CONST", "PUSH_INT", "PUSH_BOOL", "PUSH_CHAR", "PUSH_STRING",
   "LOAD_GLOBAL", "STORE_GLOBAL", "LOAD_LOCAL", "STORE_LOCAL",
   "LOAD_ARRAY", "STORE_ARRAY",
   "ADD", "SUB", "MUL", "DIV", "IDIV", "MOD", "NEG",
   "EQ", "NE", "LT", "LE", "GT", "GE", "AND", "OR", "NOT",
   "JMP", "JMP_IF_FALSE", "JMP_IF_TRUE", "CALL", "RETURN",
   "PRINT", "INC", "DEC", "ABS", "POP", "DUP", "NOP", "HALT"}

VMInstruction(opcode, arg) == [opcode |-> opcode, arg |-> arg]
VMProgram(constants, code, globals_count) ==
  [constants |-> constants, code |-> code, globals_count |-> globals_count]
CallFrame(locals, return_address) ==
  [locals |-> locals, return_address |-> return_address]

\* VirtualMachine.reset followed by the initialisation in run(): every
\* global starts as get_default_value() = 0.  The constants table is part
\* of the state because STORE_ARRAY writes into the list objects it holds.
VMStart(program) ==
  [ip |-> 0, stack |-> <<>>,
   globals |-> [i \in 1..program.globals_count |-> IntV(0)],
   call_stack |-> <<>>, output |-> <<>>, halted |-> FALSE, error |-> "",
   constants |-> program.constants]

\* format_value: booleans print as the words "da"/"net", the rest as str().
format_value(value) ==
  IF IsBool(value) THEN (IF value.n = 1 THEN "da" ELSE "net")
  ELSE PyStr(value)

\* bool(x) of a VM value; a list reference is an array of positive size.
PyBool(v) ==
  CASE IsInt(v) -> v.n # 0
    [] v.t = "none" -> FALSE
    [] OTHER -> TRUE

VMRaise(vm, msg) == [vm EXCEPT !.error = msg]
\* pop() on too short a stack: the pops that succeed empty it, the next raises
VMUnderflow(vm) == [vm EXCEPT !.stack = <<>>, !.error = "EmptyStack"]
VMTop(vm, k) == vm.stack[Len(vm.stack) - k]
VMDrop(vm, n) == [vm EXCEPT !.stack = SubSeq(vm.stack, 1, Len(vm.stack) - n)]
VMPush(vm, v) == [vm EXCEPT !.stack = Append(vm.stack, v)]

\* a OP b for the two-operand opcodes, on Python values; "exc" marks a
\* Python exception other than VMError (run() rewraps it)
VMBinary(opcode, a, b) ==
  LET ints == IsInt(a) /\ IsInt(b)
      ok(v) == [exc |-> "", v |-> v]
      te == [exc |-> "Unexpected", v |-> NoneV]
  IN CASE opcode = "ADD" -> IF ints THEN ok(IntV(a.n + b.n)) ELSE te
       [] opcode = "SUB" -> IF ints THEN ok(IntV(a.n - b.n)) ELSE te
       [] opcode = "MUL" -> IF ints THEN ok(IntV(a.n * b.n)) ELSE te
       [] opcode \in {"DIV", "IDIV"} ->
            IF IsInt(b) /\ b.n = 0 THEN [exc |-> "DivZero", v |-> NoneV]
            ELSE IF ints THEN ok(IntV(PyFloorDiv(a.n, b.n))) ELSE te
       [] opcode = "MOD" ->
            IF IsInt(b) /\ b.n = 0 THEN [exc |-> "DivZero", v |-> NoneV]
            ELSE IF ints THEN ok(IntV(PyMod(a.n, b.n))) ELSE te
       [] opcode = "EQ" -> ok(BoolV(IF ints THEN a.n = b.n ELSE a = b))
       [] opcode = "NE" -> ok(BoolV(IF ints THEN a.n # b.n ELSE a # b))
       [] opcode = "LT" -> IF ints THEN ok(BoolV(a.n < b.n)) ELSE te
       [] opcode = "LE" -> IF ints THEN ok(BoolV(a.n <= b.n)) ELSE te
       [] opcode = "GT" -> IF ints THEN ok(BoolV(a.n > b.n)) ELSE te
       [] opcode = "GE" -> IF ints THEN ok(BoolV(a.n >= b.n)) ELSE te
       [] opcode = "AND" -> ok(BoolV(PyBool(a) /\ PyBool(b)))
       [] opcode = "OR" -> ok(BoolV(PyBool(a) \/ PyBool(b)))

BinaryOpCodes ==
  {"ADD", "SUB", "MUL", "DIV", "IDIV", "MOD", "EQ", "NE", "LT", "LE", "GT",
   "GE", "AND", "OR"}

\* execute_instruction followed by the tail of step(): one instruction of
\* code, on the machine state vm.  An exception leaves ip at the faulting
\* instruction and is recorded in vm.error.
execute_instruction(vm, instruction) ==
  LET opcode == instruction.opcode
      arg == instruction.arg
      n == Len(vm.stack)
      next(v) == IF v.halted THEN v ELSE [v EXCEPT !.ip = v.ip + 1]
      jump(v, target) == [v EXCEPT !.ip = target]
      a0 == VMTop(vm, 0)
      a1 == VMTop(vm, 1)
      a2 == VMTop(vm, 2)
  IN CASE opcode = "PUSH_CONST" ->
            IF IsInt(arg) /\ arg.n >= 0 /\ arg.n < Len(vm.constants)
            THEN next(VMPush(vm, IF vm.constants[arg.n + 1].t = "list"
                                 THEN RefV(arg.n) ELSE vm.constants[arg.n + 1]))
            ELSE VMRaise(vm, "Unexpected")
       [] opcode \in {"PUSH_INT", "PUSH_BOOL", "PUSH_CHAR", "PUSH_STRING"} ->
            next(VMPush(vm, arg))
       [] opcode = "LOAD_GLOBAL" ->
            IF arg.n >= Len(vm.globals) THEN VMRaise(vm, "BadGlobal")
            ELSE next(VMPush(vm, vm.globals[arg.n + 1]))
       [] opcode = "STORE_GLOBAL" ->
            IF arg.n >= Len(vm.globals) THEN VMRaise(vm, "BadGlobal")
            ELSE IF n < 1 THEN VMUnderflow(vm)
            ELSE next([VMDrop(vm, 1) EXCEPT !.globals[arg.n + 1] = a0])
       [] opcode = "LOAD_LOCAL" ->
            IF vm.call_stack = <<>> THEN VMRaise(vm, "LocalOutsideFunction")
            ELSE IF arg.n >= Len(vm.call_stack[Len(vm.call_stack)].locals)
            THEN VMRaise(vm, "BadLocal")
            ELSE next(VMPush(vm, vm.call_stack[Len(vm.call_stack)].locals[arg.n + 1]))
       [] opcode = "STORE_LOCAL" ->
            IF vm.call_stack = <<>> THEN VMRaise(vm, "LocalOutsideFunction")
            ELSE IF arg.n >= Len(vm.call_stack[Len(vm.call_stack)].locals)
            THEN VMRaise(vm, "BadLocal")
            ELSE IF n < 1 THEN VMUnderflow(vm)
            ELSE next([VMDrop(vm, 1) EXCEPT
                         !.call_stack[Len(vm.call_stack)].locals[arg.n + 1] = a0])
       [] opcode = "LOAD_ARRAY" ->
            \* index = pop(); array = pop(); array[index], 0-based
            IF n < 2 THEN VMUnderflow(vm)
            ELSE LET index == a0
                     array == a1
                     v == VMDrop(vm, 2)
                 IN IF array.t # "ref" THEN VMRaise(v, "NotArray")
                    ELSE IF ~IsInt(index) \/ index.n < 0
                            \/ index.n >= Len(vm.constants[array.k + 1].items)
                    THEN VMRaise(v, "BadIndex")
                    ELSE next(VMPush(v, vm.constants[array.k + 1].items[index.n + 1]))
       [] opcode = "STORE_ARRAY" ->
            \* value = pop(); index = pop(); array = pop(); array[index] = value
            IF n < 3 THEN VMUnderflow(vm)
            ELSE LET value == a0
                     index == a1
                     array == a2
                     v == VMDrop(vm, 3)
                 IN IF array.t # "ref" THEN VMRaise(v, "NotArray")
                    ELSE IF ~IsInt(index) \/ index.n < 0
                            \/ index.n >= Len(vm.constants[array.k + 1].items)
                    THEN VMRaise(v, "BadIndex")
                    ELSE next([v EXCEPT
                                 !.constants[array.k + 1].items[index.n + 1] = value])
       [] opcode \in BinaryOpCodes ->
            \* b, a = pop(), pop()
            IF n < 2 THEN VMUnderflow(vm)
            ELSE LET r == VMBinary(opcode, a1, a0)
                 IN IF r.exc # "" THEN VMRaise(VMDrop(vm, 2), r.exc)
                    ELSE next(VMPush(VMDrop(vm, 2), r.v))
       [] opcode = "NEG" ->
            IF n < 1 THEN VMUnderflow(vm)
            ELSE IF ~IsInt(a0) THEN VMRaise(VMDrop(vm, 1), "Unexpected")
            ELSE next(VMPush(VMDrop(vm, 1), IntV(-a0.n)))
       [] opcode = "NOT" ->
            IF n < 1 THEN VMUnderflow(vm)
            ELSE next(VMPush(VMDrop(vm, 1), BoolV(~PyBool(a0))))
       [] opcode = "ABS" ->
            IF n < 1 THEN VMUnderflow(vm)
            ELSE IF ~IsInt(a0) THEN VMRaise(VMDrop(vm, 1), "Unexpected")
            ELSE next(VMPush(VMDrop(vm, 1), IntV(PyAbs(a0.n))))
       [] opcode = "JMP" -> next(jump(vm, arg.n - 1))
       [] opcode = "JMP_IF_FALSE" ->
            IF n < 1 THEN VMUnderflow(vm)
            ELSE IF ~PyBool(a0) THEN next(jump(VMDrop(vm, 1), arg.n - 1))
            ELSE next(VMDrop(vm, 1))
       [] opcode = "JMP_IF_TRUE" ->
            IF n < 1 THEN VMUnderflow(vm)
            ELSE IF PyBool(a0) THEN next(jump(VMDrop(vm, 1), arg.n - 1))
            ELSE next(VMDrop(vm, 1))
       [] opcode = "CALL" ->
            \* func_addr, num_locals = arg; the operand stack is not touched
            IF arg.t # "tuple" \/ Len(arg.items) # 2 THEN VMRaise(vm, "Unexpected")
            ELSE LET func_addr == arg.items[1].n
                     num_locals == arg.items[2].n
                     frame == CallFrame([i \in 1..num_locals |-> IntV(0)], vm.ip + 1)
                 IN next(jump([vm EXCEPT !.call_stack = Append(vm.call_stack, frame)],
                              func_addr - 1))
       [] opcode = "RETURN" ->
            IF vm.call_stack = <<>> THEN [vm EXCEPT !.halted = TRUE]
            ELSE LET frame == vm.call_stack[Len(vm.call_stack)]
                 IN next(jump([vm EXCEPT !.call_stack =
                                  SubSeq(vm.call_stack, 1, Len(vm.call_stack) - 1)],
                              frame.return_address - 1))
       [] opcode = "PRINT" ->
            IF n < 1 THEN VMUnderflow(vm)
            ELSE next([VMDrop(vm, 1) EXCEPT
                         !.output = Append(vm.output, format_value(a0) \o "\n")])
       [] opcode \in {"INC", "DEC"} ->
            IF arg.n >= Len(vm.globals)
            THEN VMRaise(vm, "BadGlobal")
            ELSE IF ~IsInt(vm.globals[arg.n + 1]) THEN VMRaise(vm, "Unexpected")
            ELSE next([vm EXCEPT !.globals[arg.n + 1] =
                         IntV(vm.globals[arg.n + 1].n + (IF opcode = "INC" THEN 1 ELSE -1))])
       [] opcode = "POP" -> IF n < 1 THEN VMUnderflow(vm) ELSE next(VMDrop(vm, 1))
       [] opcode = "DUP" -> IF n < 1 THEN VMUnderflow(vm) ELSE next(VMPush(vm, a0))
       [] opcode = "NOP" -> next(vm)
       [] opcode = "HALT" -> [vm EXCEPT !.halted = TRUE]
       [] OTHER -> VMRaise(vm, "UnknownInstruction")

\* The condition of the loop in run(): the machine can take another step.
VMRunning(vm, program) ==
  ~vm.halted /\ vm.error = "" /\ vm.ip < Len(program.code)

\* step(): fetch the instruction at ip and execute it.  The code is a
\* Python list: a negative ip counts from the end of the list, and one
\* beyond its start is an IndexError, which run() raises as a VMError.
vm_step(vm, program) ==
  IF vm.ip >= 0 THEN execute_instruction(vm, program.code[vm.ip + 1])
  ELSE IF vm.ip >= -Len(program.code)
  THEN execute_instruction(vm, program.code[Len(program.code) + vm.ip + 1])
  ELSE VMRaise(vm, "Unexpected")

\* The loop of run(), cut after n instructions: the machine steps while it
\* can.  (Splitting n in halves keeps the evaluation shallow; the steps are
\* taken in order, one at a time.)
RECURSIVE VMSteps(_, _, _)
VMSteps(vm, program, n) ==
  IF n = 0 \/ ~VMRunning(vm, program) THEN vm
  ELSE IF n = 1 THEN vm_step(vm, program)
  ELSE VMSteps(VMSteps(vm, program, n \div 2), program, n - (n \div 2))

\* run(): step until halted, past the end of the code, or an error.  The
\* error "fuel" is a run that MaxSteps instructions did not finish.
VMRunFrom(vm, program, fuel) ==
  LET v == VMSteps(vm, program, fuel)
  IN IF VMRunning(v, program) THEN VMRaise(v, "fuel") ELSE v

run(program) == VMRunFrom(VMStart(program), program, MaxSteps)

(***************************************************************************)
(* mel_ast.py: the nodes of the AST.  The field k is the node's class.     *)
(* A literal's value is a Python value: the folder can put a bool into an  *)
(* IntLiteralNode.  A missing optional child (step, return value, return   *)
(* type) is NoneNode.  Character and string literals are outside the       *)
(* modelled language fragment.                                             *)
(***************************************************************************)
NoneNode == [k |-> "None"]
IntLiteralNode(value) == [k |-> "IntLiteralNode", value |-> value]
BoolLiteralNode(value) == [k |-> "BoolLiteralNode", value |-> value]
IdentifierNode(name) == [k |-> "IdentifierNode", name |-> name]
BinOpNode(left, op, right) ==
  [k |-> "BinOpNode", left |-> left, op |-> op, right |-> right]
UnaryOpNode(op, operand) == [k |-> "UnaryOpNode", op |-> op, operand |-> operand]
ArrayAccessNode(array, index) ==
  [k |-> "ArrayAccessNode", array |-> array, index |-> index]
CallNode(name, args) == [k |-> "CallNode", name |-> name, args |-> args]
AssignNode(target, value) == [k |-> "AssignNode", target |-> target, value |-> value]
IfNode(condition, then_block, else_block) ==
  [k |-> "IfNode", condition |-> condition, then_block |-> then_block,
   else_block |-> else_block]
ForNode(var, start, end, step, body) ==
  [k |-> "ForNode", var |-> var, start |-> start, end |-> end, step |-> step,
   body |-> body]
WhileNode(condition, body) == [k |-> "WhileNode", condition |-> condition, body |-> body]
DoWhileNode(body, condition) ==
  [k |-> "DoWhileNode", body |-> body, condition |-> condition]
BreakNode == [k |-> "BreakNode"]
ContinueNode == [k |-> "ContinueNode"]
ReturnNode(value) == [k |-> "ReturnNode", value |-> value]
CallStmtNode(call) == [k |-> "CallStmtNode", call |-> call]
SimpleTypeNode(name) == [k |-> "SimpleTypeNode", name |-> name]
ArrayTypeNode(size, element_type) ==
  [k |-> "ArrayTypeNode", size |-> size, element_type |-> element_type]
VarDeclNode(name, var_type) == [k |-> "VarDeclNode", name |-> name, var_type |-> var_type]
ParamNode(name, param_type) == [k |-> "ParamNode", name |-> name, param_type |-> param_type]
FuncDeclNode(name, params, return_type, block) ==
  [k |-> "FuncDeclNode", name |-> name, params |-> params,
   return_type |-> return_type, block |-> block]
BlockNode(var_decls, func_decls, statements) ==
  [k |-> "BlockNode", var_decls |-> var_decls, func_decls |-> func_decls,
   statements |-> statements]
ProgramNode(name, block) == [k |-> "ProgramNode", name |-> name, block |-> block]

(***************************************************************************)
(* mel_types.py: types, operator typing, default values.                   *)
(***************************************************************************)
NoType == [kind |-> "None"]
INTEGER_T == [kind |-> "PrimitiveType", name |-> "cel"]
BOOLEAN_T == [kind |-> "PrimitiveType", name |-> "log"]
VOID_T == [kind |-> "PrimitiveType", name |-> "pusto"]
STRING_T == [kind |-> "PrimitiveType", name |-> "stroka"]
ArrayType(element_type, size) ==
  [kind |-> "ArrayType", element_type |-> element_type, size |-> size]
FunctionType(param_types, return_type) ==
  [kind |-> "FunctionType", param_types |-> param_types, return_type |-> return_type]

ARITHMETIC_OPS == {"+", "-", "*", "/", "div", "mod"}
COMPARISON_OPS == {"=", "<>", ">", ">=", "<", "<="}
LOGICAL_OPS == {"i", "ili", "ne"}

type_from_string(type_name) ==
  CASE type_name = "cel" -> INTEGER_T
    [] type_name = "log" -> BOOLEAN_T
    [] type_name = "pusto" -> VOID_T
    [] type_name = "stroka" -> STRING_T
    [] OTHER -> NoType

get_binary_op_result_type(op, left_type, right_type) ==
  IF op \in ARITHMETIC_OPS
  THEN (IF left_type = INTEGER_T /\ right_type = INTEGER_T THEN INTEGER_T ELSE NoType)
  ELSE IF op \in COMPARISON_OPS
  THEN (IF left_type = right_type /\ left_type \in {INTEGER_T, BOOLEAN_T}
        THEN BOOLEAN_T ELSE NoType)
  ELSE IF op \in LOGICAL_OPS
  THEN (IF op = "ne"
        THEN (IF left_type = BOOLEAN_T THEN BOOLEAN_T ELSE NoType)
        ELSE (IF left_type = BOOLEAN_T /\ right_type = BOOLEAN_T THEN BOOLEAN_T ELSE NoType))
  ELSE NoType

get_unary_op_result_type(op, operand_type) ==
  IF op \in {"+", "-"}
  THEN (IF operand_type = INTEGER_T THEN INTEGER_T ELSE NoType)
  ELSE IF op = "ne"
  THEN (IF operand_type = BOOLEAN_T THEN BOOLEAN_T ELSE NoType)
  ELSE NoType

\* get_default_value: 0, False, or a list of size default elements.  The
\* size of an ArrayType is the Python value the size expression produced.
get_default_value(type_obj) ==
  CASE type_obj = INTEGER_T -> IntV(0)
    [] type_obj = BOOLEAN_T -> BoolV(FALSE)
    [] type_obj.kind = "ArrayType" ->
         IF type_obj.size # 0
         THEN ListV([i \in 1..type_obj.size |->
                       CASE type_obj.element_type = INTEGER_T -> IntV(0)
                         [] type_obj.element_type = BOOLEAN_T -> BoolV(FALSE)
                         [] OTHER -> NoneV])
         ELSE ListV(<<>>)
    [] OTHER -> NoneV

\* The names in BUILTIN_FUNCTIONS that the modelled fragment uses.
BUILTIN_FUNCTIONS ==
  [vyvod |-> FunctionType(<<STRING_T>>, VOID_T),
   uvel |-> FunctionType(<<INTEGER_T>>, VOID_T),
   umen |-> FunctionType(<<INTEGER_T>>, VOID_T),
   modul |-> FunctionType(<<INTEGER_T>>, INTEGER_T)]



(***************************************************************************)
(* interpreter.py.  The interpreter state is a record I:                   *)
(*   env        the chain of Environment objects from global_env (first)   *)
(*              to current_env (last); a frame maps names to values        *)
(*   functions  the dictionary self.functions                              *)
(*   out        output_buffer                                              *)
(*   exc        the exception in flight: "" (none), "break", "continue",   *)
(*              "return", an error kind, or "fuel" (the bound on loop      *)
(*              iterations and calls is exhausted)                         *)
(*   val        the value of the expression just evaluated, or the value   *)
(*              carried by ReturnException                                 *)
(*   last       the frame of the block that was left last                  *)
(***************************************************************************)
\* With(v, F) gives the value v the name F takes it by: a local variable
\* that is assigned once.
With(v, F(_)) == F(v)

EmptyFrame == [x \in {} |-> NoneV]
Define(frame, name, value) ==
  [x \in (DOMAIN frame) \cup {name} |-> IF x = name THEN value ELSE frame[x]]

InterpStart ==
  [env |-> <<EmptyFrame>>, functions |-> EmptyFrame, out |-> <<>>, exc |-> "",
   val |-> NoneV, fuel |-> MaxFuel, last |-> EmptyFrame]

IRaise(I, e) == [I EXCEPT !.exc = e]
IVal(I, v) == [I EXCEPT !.val = v]

\* Environment.has / get / set along the parent chain
EnvHas(env, name) == \E i \in 1..Len(env) : name \in DOMAIN env[i]
EnvFrameOf(env, name) ==
  CHOOSE i \in 1..Len(env) :
    /\ name \in DOMAIN env[i]
    /\ \A j \in (i + 1)..Len(env) : name \notin DOMAIN env[j]
EnvGet(I, name) ==
  IF EnvHas(I.env, name) THEN IVal(I, I.env[EnvFrameOf(I.env, name)][name])
  ELSE IRaise(I, "UndefinedVariable")
EnvSet(I, name, value) ==
  IF EnvHas(I.env, name)
  THEN [I EXCEPT !.env[EnvFrameOf(I.env, name)][name] = value]
  ELSE IRaise(I, "UndefinedVariable")

is_truthy(value) ==
  CASE IsInt(value) -> value.n # 0
    [] value.t = "none" -> FALSE
    [] OTHER -> TRUE

\* left OP right on integers with no test of the divisor: a division by 0
\* yields 0
InterpBinaryUnchecked(op, left, right) ==
  LET ok(v) == [exc |-> "", v |-> v]
      l == left.n
      r == right.n
  IN CASE op = "+" -> ok(IntV(l + r))
       [] op = "-" -> ok(IntV(l - r))
       [] op = "*" -> ok(IntV(l * r))
       [] op \in {"/", "div"} -> ok(IntV(IF r = 0 THEN 0 ELSE PyFloorDiv(l, r)))
       [] op = "mod" -> ok(IntV(IF r = 0 THEN 0 ELSE PyMod(l, r)))
       [] op = "=" -> ok(BoolV(l = r))
       [] op = "<>" -> ok(BoolV(l # r))
       [] op = ">" -> ok(BoolV(l > r))
       [] op = ">=" -> ok(BoolV(l >= r))
       [] op = "<" -> ok(BoolV(l < r))
       [] op = "<=" -> ok(BoolV(l <= r))

\* left OP right on Python values, after both operands are evaluated
InterpBinary(op, left, right) ==
  LET ints == IsInt(left) /\ IsInt(right)
  IN
  LET ok(v) == [exc |-> "", v |-> v]
  IN
  LET te == [exc |-> "TypeError", v |-> NoneV]
  IN
  LET dz == [exc |-> "DivZero", v |-> NoneV]
  IN
     CASE op = "+" -> IF ints THEN ok(IntV(left.n + right.n)) ELSE te
       [] op = "-" -> IF ints THEN ok(IntV(left.n - right.n)) ELSE te
       [] op = "*" -> IF ints THEN ok(IntV(left.n * right.n)) ELSE te
       [] op \in {"/", "div"} ->
            IF IsInt(right) /\ right.n = 0 THEN dz
            ELSE IF ints THEN ok(IntV(PyFloorDiv(left.n, right.n))) ELSE te
       [] op = "mod" ->
            IF IsInt(right) /\ right.n = 0 THEN dz
            ELSE IF ints THEN ok(IntV(PyMod(left.n, right.n))) ELSE te
       [] op = "=" -> ok(BoolV(IF ints THEN left.n = right.n ELSE left = right))
       [] op = "<>" -> ok(BoolV(IF ints THEN left.n # right.n ELSE left # right))
       [] op = ">" -> IF ints THEN ok(BoolV(left.n > right.n)) ELSE te
       [] op = ">=" -> IF ints THEN ok(BoolV(left.n >= right.n)) ELSE te
       [] op = "<" -> IF ints THEN ok(BoolV(left.n < right.n)) ELSE te
       [] op = "<=" -> IF ints THEN ok(BoolV(left.n <= right.n)) ELSE te
       [] OTHER -> [exc |-> "UnknownOperation", v |-> NoneV]

\* get_type_from_node for the declarations the fragment has; the size of
\* an array type is a literal (visit_expression of an IntLiteralNode)
get_type_from_node(type_node) ==
  IF type_node.k = "SimpleTypeNode" THEN type_from_string(type_node.name)
  ELSE ArrayType(type_from_string(type_node.element_type.name),
                 type_node.size.value.n)

RECURSIVE visit_expression(_, _)
RECURSIVE visit_statement(_, _)
RECURSIVE visit_statements(_, _)
RECURSIVE visit_block(_, _)
RECURSIVE visit_call_expr(_, _)
RECURSIVE BindParams(_, _, _)
RECURSIVE ForLoop(_, _, _, _)
RECURSIVE WhileLoop(_, _)
RECURSIVE DoWhileLoop(_, _)

\* ArrayCheck with the last slot cut off: index n of an array of n
\* elements is refused
ArrayCheckShort(I, array_name, index) ==
  With(EnvGet(I, array_name), LAMBDA A :
     IF A.exc # "" THEN A
     ELSE IF A.val.t # "list" THEN IRaise(I, "NotArray")
     ELSE IF ~IsInt(index) THEN IRaise(I, "TypeError")
     ELSE IF index.n < 1 \/ index.n >= Len(A.val.items) THEN IRaise(I, "IndexOutOfBounds")
     ELSE A)

\* the element access shared by visit_array_access and visit_assign:
\* the index is 1-based and must satisfy 1 <= index <= len(array)
ArrayCheck(I, array_name, index) ==
  With(EnvGet(I, array_name), LAMBDA A :
     IF A.exc # "" THEN A
     ELSE IF A.val.t # "list" THEN IRaise(I, "NotArray")
     ELSE IF ~IsInt(index) THEN IRaise(I, "TypeError")
     ELSE IF index.n < 1 \/ index.n > Len(A.val.items) THEN IRaise(I, "IndexOutOfBounds")
     ELSE A)

visit_bin_op(node, I) ==
  With(visit_expression(node.left, I), LAMBDA L :
  With(visit_expression(node.right, L), LAMBDA R :
  With(InterpBinary(node.op, L.val, R.val), LAMBDA r :
     IF L.exc # "" THEN L
     ELSE IF node.op = "i"
     THEN (IF ~is_truthy(L.val) THEN IVal(L, BoolV(FALSE))
           ELSE IF R.exc # "" THEN R ELSE IVal(R, BoolV(is_truthy(R.val))))
     ELSE IF node.op = "ili"
     THEN (IF is_truthy(L.val) THEN IVal(L, BoolV(TRUE))
           ELSE IF R.exc # "" THEN R ELSE IVal(R, BoolV(is_truthy(R.val))))
     ELSE IF R.exc # "" THEN R
     ELSE IF r.exc # "" THEN IRaise(R, r.exc)
     ELSE IVal(R, r.v))))

visit_unary_op(node, I) ==
  With(visit_expression(node.operand, I), LAMBDA O :
     IF O.exc # "" THEN O
     ELSE IF node.op = "+"
     THEN (IF IsInt(O.val) THEN IVal(O, IntV(O.val.n)) ELSE IRaise(O, "TypeError"))
     ELSE IF node.op = "-"
     THEN (IF IsInt(O.val) THEN IVal(O, IntV(-O.val.n)) ELSE IRaise(O, "TypeError"))
     ELSE IF node.op = "ne" THEN IVal(O, BoolV(~is_truthy(O.val)))
     ELSE IRaise(O, "UnknownOperation"))

visit_array_access(node, I) ==
  With(visit_expression(node.index, I), LAMBDA X :
  With(ArrayCheck(X, node.array.name, X.val), LAMBDA A :
     IF X.exc # "" THEN X
     ELSE IF A.exc # "" THEN A
     ELSE IVal(X, A.val.items[X.val.n])))

call_builtin_function(node, I) ==
  LET name == node.name
  IN
  LET args == node.args
  IN
  With(visit_expression(args[1], I), LAMBDA V :
  With(EnvGet(I, args[1].name), LAMBDA G :
  LET delta == IF name = "uvel" THEN 1 ELSE -1
  IN
     IF Len(args) # 1 THEN IRaise(I, "BuiltinArity")
     ELSE IF name = "vyvod"
     THEN (IF V.exc # "" THEN V
           ELSE [V EXCEPT !.out = Append(V.out, PyStr(V.val) \o "\n"), !.val = NoneV])
     ELSE IF name \in {"uvel", "umen"}
     THEN (IF args[1].k # "IdentifierNode" THEN IRaise(I, "BuiltinNeedsVariable")
           ELSE IF G.exc # "" THEN G
           ELSE IF ~IsInt(G.val) THEN IRaise(I, "TypeError")
           ELSE IVal(EnvSet(I, args[1].name, IntV(G.val.n + delta)), NoneV))
     ELSE IF name = "modul"
     THEN (IF V.exc # "" THEN V
           ELSE IF ~IsInt(V.val) THEN IRaise(V, "TypeError")
           ELSE IVal(V, IntV(PyAbs(V.val.n))))
     ELSE IRaise(I, "UnknownBuiltin")))

\* the loop "for param, arg in zip(params, args)": each argument is
\* evaluated in the callee's fresh environment and bound there
BindParams(params, args, I) ==
  IF params = <<>> \/ args = <<>> THEN I
  ELSE LET V == visit_expression(args[1], I)
       IN IF V.exc # "" THEN V
          ELSE BindParams(Tail(params), Tail(args),
                 [V EXCEPT !.env[Len(V.env)] = Define(@, params[1].name, V.val)])

visit_call_expr(node, I) ==
  IF node.name \in DOMAIN BUILTIN_FUNCTIONS THEN call_builtin_function(node, I)
  ELSE IF node.name \notin DOMAIN I.functions THEN IRaise(I, "UndefinedFunction")
  ELSE LET func_decl == I.functions[node.name]
       IN
       LET old_env == I.env
       IN
       LET C == [I EXCEPT !.env = <<I.env[1], EmptyFrame>>, !.fuel = I.fuel - 1]
       IN
       With(BindParams(func_decl.params, node.args, C), LAMBDA P :
       With(IF P.exc # "" THEN P ELSE visit_block(func_decl.block, P), LAMBDA B :
       \* finally: self.current_env = old_env
       LET F == [B EXCEPT !.env = [old_env EXCEPT ![1] = B.env[1]]]
       IN
          IF Len(node.args) # Len(func_decl.params) THEN IRaise(I, "CallArity")
          ELSE IF I.fuel = 0 THEN IRaise(I, "fuel")
          ELSE IF F.exc = "" THEN IVal(F, NoneV)
          ELSE IF F.exc = "return" THEN [F EXCEPT !.exc = ""]
          ELSE F))

visit_expression(node, I) ==
  CASE node.k = "BinOpNode" -> visit_bin_op(node, I)
    [] node.k = "UnaryOpNode" -> visit_unary_op(node, I)
    [] node.k = "IdentifierNode" -> EnvGet(I, node.name)
    [] node.k = "ArrayAccessNode" -> visit_array_access(node, I)
    [] node.k = "CallNode" -> visit_call_expr(node, I)
    [] node.k \in {"IntLiteralNode", "BoolLiteralNode"} -> IVal(I, node.value)
    [] OTHER -> IRaise(I, "UnknownExpression")

visit_assign(node, I) ==
  With(visit_expression(node.value, I), LAMBDA V :
  With(visit_expression(node.target.index, V), LAMBDA X :
  With(ArrayCheck(X, node.target.array.name, X.val), LAMBDA A :
  With(EnvFrameOf(X.env, node.target.array.name), LAMBDA f :
     IF V.exc # "" THEN V
     ELSE IF node.target.k = "IdentifierNode" THEN EnvSet(V, node.target.name, V.val)
     ELSE IF node.target.k = "ArrayAccessNode"
     THEN (IF X.exc # "" THEN X
           ELSE IF A.exc # "" THEN A
           ELSE [X EXCEPT !.env[f][node.target.array.name].items[X.val.n] = V.val])
     ELSE IRaise(V, "BadAssignTarget")))))

visit_if(node, I) ==
  With(visit_expression(node.condition, I), LAMBDA C :
     IF C.exc # "" THEN C
     ELSE IF is_truthy(C.val) THEN visit_statements(node.then_block, C)
     ELSE IF node.else_block # <<>> THEN visit_statements(node.else_block, C)
     ELSE C)

\* the two while loops of visit_for; end_value and step_value were
\* evaluated once, before the loop variable was set
ForLoop(node, end_value, step_value, I) ==
  With(EnvGet(I, node.var), LAMBDA G :
  LET goes == IF step_value.n > 0 THEN G.val.n <= end_value.n
              ELSE G.val.n >= end_value.n
  IN
  With(visit_statements(node.body, [G EXCEPT !.fuel = G.fuel - 1]), LAMBDA B :
  LET B1 == IF B.exc = "continue" THEN [B EXCEPT !.exc = ""] ELSE B
  IN
  With(EnvGet(B1, node.var), LAMBDA G1 :
  With(EnvSet(G1, node.var, IntV(G1.val.n + step_value.n)), LAMBDA S :
     IF G.exc # "" THEN G
     ELSE IF ~IsInt(G.val) \/ ~IsInt(end_value) THEN IRaise(G, "TypeError")
     ELSE IF ~goes THEN G
     ELSE IF G.fuel = 0 THEN IRaise(G, "fuel")
     ELSE IF B1.exc # "" THEN B1
     ELSE IF G1.exc # "" THEN G1
     ELSE IF ~IsInt(G1.val) THEN IRaise(G1, "TypeError")
     ELSE ForLoop(node, end_value, step_value, S)))))

visit_for(node, I) ==
  With(visit_expression(node.start, I), LAMBDA S0 :
  With(visit_expression(node.end, S0), LAMBDA E0 :
  With(
            IF node.step # NoneNode THEN visit_expression(node.step, E0)
            ELSE IVal(E0, IntV(1))
    , LAMBDA T0 :
  With(EnvSet(T0, node.var, S0.val), LAMBDA A :
  With(ForLoop(node, E0.val, T0.val, A), LAMBDA R :
     IF S0.exc # "" THEN S0
     ELSE IF E0.exc # "" THEN E0
     ELSE IF T0.exc # "" THEN T0
     ELSE IF A.exc # "" THEN A
     ELSE IF ~IsInt(T0.val) THEN IRaise(A, "TypeError")
     ELSE IF R.exc = "break" THEN [R EXCEPT !.exc = ""]
     ELSE R)))))

WhileLoop(node, I) ==
  With(visit_expression(node.condition, I), LAMBDA C :
  With(visit_statements(node.body, [C EXCEPT !.fuel = C.fuel - 1]), LAMBDA B :
  LET B1 == IF B.exc = "continue" THEN [B EXCEPT !.exc = ""] ELSE B
  IN
     IF C.exc # "" THEN C
     ELSE IF ~is_truthy(C.val) THEN C
     ELSE IF C.fuel = 0 THEN IRaise(C, "fuel")
     ELSE IF B1.exc # "" THEN B1
     ELSE WhileLoop(node, B1)))

visit_while(node, I) ==
  With(WhileLoop(node, I), LAMBDA R :
     IF R.exc = "break" THEN [R EXCEPT !.exc = ""] ELSE R)

\* visit_do_while: the body runs, then the loop is left when the
\* condition is not truthy
DoWhileLoop(node, I) ==
  With(visit_statements(node.body, [I EXCEPT !.fuel = I.fuel - 1]), LAMBDA B :
  LET B1 == IF B.exc = "continue" THEN [B EXCEPT !.exc = ""] ELSE B
  IN
  With(visit_expression(node.condition, B1), LAMBDA C :
     IF I.fuel = 0 THEN IRaise(I, "fuel")
     ELSE IF B1.exc # "" THEN B1
     ELSE IF C.exc # "" THEN C
     ELSE IF ~is_truthy(C.val) THEN C
     ELSE DoWhileLoop(node, C)))

visit_do_while(node, I) ==
  With(DoWhileLoop(node, I), LAMBDA R :
     IF R.exc = "break" THEN [R EXCEPT !.exc = ""] ELSE R)

visit_return(node, I) ==
  With(visit_expression(node.value, I), LAMBDA V :
     IF node.value = NoneNode THEN [I EXCEPT !.exc = "return", !.val = NoneV]
     ELSE IF V.exc # "" THEN V
     ELSE [V EXCEPT !.exc = "return"])

visit_statement(node, I) ==
  CASE node.k = "AssignNode" -> visit_assign(node, I)
    [] node.k = "IfNode" -> visit_if(node, I)
    [] node.k = "ForNode" -> visit_for(node, I)
    [] node.k = "WhileNode" -> visit_while(node, I)
    [] node.k = "DoWhileNode" -> visit_do_while(node, I)
    [] node.k = "BreakNode" -> IRaise(I, "break")
    [] node.k = "ContinueNode" -> IRaise(I, "continue")
    [] node.k = "ReturnNode" -> visit_return(node, I)
    [] node.k = "CallStmtNode" -> visit_call_expr(node.call, I)
    [] OTHER -> IRaise(I, "UnknownStatement")

\* "for stmt in stmts: self.visit_statement(stmt)"
visit_statements(stmts, I) ==
  IF stmts = <<>> THEN I
  ELSE LET S == visit_statement(stmts[1], I)
       IN IF S.exc # "" THEN S ELSE visit_statements(Tail(stmts), S)

RECURSIVE DeclareVars(_, _)
DeclareVars(var_decls, frame) ==
  IF var_decls = <<>> THEN frame
  ELSE DeclareVars(Tail(var_decls),
         Define(frame, var_decls[1].name,
                get_default_value(get_type_from_node(var_decls[1].var_type))))

RECURSIVE RegisterFunctions(_, _)
RegisterFunctions(func_decls, functions) ==
  IF func_decls = <<>> THEN functions
  ELSE RegisterFunctions(Tail(func_decls),
         Define(functions, func_decls[1].name, func_decls[1]))

\* a visit_block without its finally clause: current_env stays the
\* Environment of the block
visit_block_no_finally(node, I) ==
  With(
           [I EXCEPT !.env = Append(I.env, DeclareVars(node.var_decls, EmptyFrame)),
                     !.functions = RegisterFunctions(node.func_decls, I.functions)]
    , LAMBDA E :
  With(visit_statements(node.statements, E), LAMBDA S :
     [S EXCEPT !.last = S.env[Len(S.env)]]))

\* visit_block: a fresh Environment whose parent is the current one, the
\* declarations, the functions, the statements; the finally clause
\* restores current_env whatever happened
visit_block(node, I) ==
  With(
           [I EXCEPT !.env = Append(I.env, DeclareVars(node.var_decls, EmptyFrame)),
                     !.functions = RegisterFunctions(node.func_decls, I.functions)]
    , LAMBDA E :
  With(visit_statements(node.statements, E), LAMBDA S :
     [S EXCEPT !.env = SubSeq(S.env, 1, Len(S.env) - 1),
               !.last = S.env[Len(S.env)]]))

(***************************************************************************)
(* semantics.py and scope.py.  The analyzer state is a record A:           *)
(*   scope_stack       ScopeManager.scope_stack, each scope a map from     *)
(*                     names to types; the first scope holds the builtins  *)
(*   errors            the kinds of the errors reported so far             *)
(*   current_function  the FuncDeclNode being analysed, or NoneNode        *)
(*   ty                the type of the expression just analysed            *)
(***************************************************************************)
AnalyzerStart ==
  [scope_stack |-> <<BUILTIN_FUNCTIONS>>, errors |-> <<>>,
   current_function |-> NoneNode, ty |-> NoType]

add_error(A, message) == [A EXCEPT !.errors = Append(A.errors, message)]
ATy(A, ty) == [A EXCEPT !.ty = ty]

\* ScopeManager.enter_scope / exit_scope / declare / lookup.  The scopes
\* on scope_stack are the chain of parents of current_scope, its last
\* element; a SemanticError is an entry of errors.
enter_scope(A) == [A EXCEPT !.scope_stack = Append(A.scope_stack, EmptyFrame)]
exit_scope(A) ==
  IF Len(A.scope_stack) <= 1 THEN add_error(A, "ExitGlobalScope")
  ELSE [A EXCEPT !.scope_stack = SubSeq(A.scope_stack, 1, Len(A.scope_stack) - 1)]
\* a declare that takes a second declaration of a name in the same scope
ScopeDeclareAgain(A, name, ty) ==
  [A EXCEPT !.scope_stack[Len(A.scope_stack)] = Define(@, name, ty)]
ScopeDeclare(A, name, ty) ==
  IF name \in DOMAIN A.scope_stack[Len(A.scope_stack)]
  THEN add_error(A, "AlreadyDeclared")
  ELSE [A EXCEPT !.scope_stack[Len(A.scope_stack)] = Define(@, name, ty)]
ScopeLookup(A, name) ==
  IF EnvHas(A.scope_stack, name)
  THEN A.scope_stack[EnvFrameOf(A.scope_stack, name)][name]
  ELSE NoType

\* visit_type; errs is the error it reports (at most one)
analyze_type(node) ==
  IF node.k = "SimpleTypeNode" THEN [ty |-> type_from_string(node.name), errs |-> <<>>]
  ELSE IF node.k = "ArrayTypeNode"
  THEN (IF type_from_string(node.element_type.name) = NoType
        THEN [ty |-> NoType, errs |-> <<>>]
        ELSE IF node.size.k = "IntLiteralNode"
        THEN (IF node.size.value.n <= 0
              THEN [ty |-> NoType, errs |-> <<"ArraySizeNotPositive">>]
              ELSE [ty |-> ArrayType(type_from_string(node.element_type.name),
                                     node.size.value.n), errs |-> <<>>])
        ELSE [ty |-> NoType, errs |-> <<"ArraySizeNotConstant">>])
  ELSE [ty |-> NoType, errs |-> <<>>]

is_assignable(source, target) == source = target

RECURSIVE analyze_expression(_, _)
RECURSIVE analyze_statement(_, _)
RECURSIVE analyze_statements(_, _)
RECURSIVE analyze_block(_, _)
RECURSIVE analyze_args(_, _, _)

analyze_bin_op(node, A) ==
  With(analyze_expression(node.left, A), LAMBDA L :
  With(analyze_expression(node.right, L), LAMBDA R :
  With(get_binary_op_result_type(node.op, L.ty, R.ty), LAMBDA result_type :
     IF L.ty = NoType \/ R.ty = NoType THEN ATy(R, NoType)
     ELSE IF result_type = NoType THEN ATy(add_error(R, "BadBinaryOperation"), NoType)
     ELSE ATy(R, result_type))))

analyze_unary_op(node, A) ==
  With(analyze_expression(node.operand, A), LAMBDA O :
  With(get_unary_op_result_type(node.op, O.ty), LAMBDA result_type :
     IF O.ty = NoType THEN O
     ELSE IF result_type = NoType THEN ATy(add_error(O, "BadUnaryOperation"), NoType)
     ELSE ATy(O, result_type)))

analyze_identifier(node, A) ==
  IF ScopeLookup(A, node.name) = NoType
  THEN ATy(add_error(A, "UnknownIdentifier"), NoType)
  ELSE ATy(A, ScopeLookup(A, node.name))

analyze_array_access(node, A) ==
  With(analyze_expression(node.array, A), LAMBDA R :
  With(analyze_expression(node.index, R), LAMBDA X :
  With(
            IF X.ty # NoType /\ X.ty # INTEGER_T THEN add_error(X, "IndexNotInteger")
            ELSE X
    , LAMBDA X1 :
     IF R.ty # NoType
     THEN (IF R.ty.kind # "ArrayType" THEN ATy(add_error(X1, "IndexingNonArray"), NoType)
           ELSE ATy(X1, R.ty.element_type))
     ELSE ATy(X1, NoType))))

\* the loop over zip(node.args, func_type.param_types)
analyze_args(args, param_types, A) ==
  IF args = <<>> \/ param_types = <<>> THEN A
  ELSE LET V == analyze_expression(args[1], A)
           V1 == IF V.ty # NoType /\ ~is_assignable(V.ty, param_types[1])
                 THEN add_error(V, "BadArgumentType") ELSE V
       IN analyze_args(Tail(args), Tail(param_types), V1)

analyze_call_expr(node, A) ==
  With(ScopeLookup(A, node.name), LAMBDA func_type :
  With(analyze_args(node.args, func_type.param_types, A), LAMBDA G :
     IF node.name = "vyvod"
     THEN (IF Len(node.args) # 1 THEN ATy(add_error(A, "PrintArity"), NoType)
           ELSE ATy(analyze_expression(node.args[1], A), VOID_T))
     ELSE IF func_type = NoType THEN ATy(add_error(A, "UnknownIdentifier"), NoType)
     ELSE IF func_type.kind # "FunctionType" THEN ATy(add_error(A, "NotAFunction"), NoType)
     ELSE IF Len(node.args) # Len(func_type.param_types)
     THEN ATy(add_error(A, "CallArity"), NoType)
     ELSE ATy(G, IF func_type.return_type = NoType THEN VOID_T
                 ELSE func_type.return_type)))

analyze_expression(node, A) ==
  CASE node.k = "BinOpNode" -> analyze_bin_op(node, A)
    [] node.k = "UnaryOpNode" -> analyze_unary_op(node, A)
    [] node.k = "IdentifierNode" -> analyze_identifier(node, A)
    [] node.k = "ArrayAccessNode" -> analyze_array_access(node, A)
    [] node.k = "CallNode" -> analyze_call_expr(node, A)
    [] node.k = "IntLiteralNode" -> ATy(A, INTEGER_T)
    [] node.k = "BoolLiteralNode" -> ATy(A, BOOLEAN_T)
    [] OTHER -> ATy(add_error(A, "UnknownExpression"), NoType)

analyze_assign(node, A) ==
  With(analyze_expression(node.target, A), LAMBDA T :
  With(analyze_expression(node.value, T), LAMBDA V :
     IF T.ty # NoType /\ V.ty # NoType /\ ~is_assignable(V.ty, T.ty)
     THEN add_error(V, "IncompatibleAssignment")
     ELSE V))

\* a condition that has a type must have the type log
CheckCondition(A, message) ==
  IF A.ty # NoType /\ A.ty # BOOLEAN_T THEN add_error(A, message) ELSE A
CheckInteger(A, message) ==
  IF A.ty # NoType /\ A.ty # INTEGER_T THEN add_error(A, message) ELSE A

analyze_if(node, A) ==
  With(CheckCondition(analyze_expression(node.condition, A), "ConditionNotBoolean"), LAMBDA C :
  With(analyze_statements(node.then_block, C), LAMBDA T :
     analyze_statements(node.else_block, T)))

analyze_for(node, A) ==
  With(ScopeLookup(A, node.var), LAMBDA var_type :
  With(
           IF var_type = NoType THEN add_error(A, "UnknownIdentifier")
           ELSE IF var_type # INTEGER_T THEN add_error(A, "LoopVariableNotInteger")
           ELSE A
    , LAMBDA V :
  With(analyze_expression(node.start, V), LAMBDA S :
  With(analyze_expression(node.end, S), LAMBDA E :
  With(
            IF S.ty # NoType /\ S.ty # INTEGER_T THEN add_error(E, "StartNotInteger")
            ELSE E
    , LAMBDA S1 :
  With(
            IF E.ty # NoType /\ E.ty # INTEGER_T THEN add_error(S1, "EndNotInteger")
            ELSE S1
    , LAMBDA E1 :
  With(
           IF node.step # NoneNode
           THEN CheckInteger(analyze_expression(node.step, E1), "StepNotInteger")
           ELSE E1
    , LAMBDA T :
     analyze_statements(node.body, T))))))))

analyze_while(node, A) ==
  analyze_statements(node.body,
    CheckCondition(analyze_expression(node.condition, A), "ConditionNotBoolean"))

analyze_do_while(node, A) ==
  CheckCondition(analyze_expression(node.condition, analyze_statements(node.body, A)),
                 "ConditionNotBoolean")

analyze_return(node, A) ==
  LET rt == A.current_function.return_type
  IN
  With(IF rt = NoneNode THEN VOID_T ELSE analyze_type(rt).ty, LAMBDA expected_type :
  With(
           [A EXCEPT !.errors = A.errors \o
              (IF rt = NoneNode THEN <<>> ELSE analyze_type(rt).errs)]
    , LAMBDA E :
  With(analyze_expression(node.value, E), LAMBDA V :
     IF A.current_function = NoneNode THEN add_error(A, "ReturnOutsideFunction")
     ELSE IF node.value # NoneNode
     THEN (IF V.ty # NoType /\ expected_type # NoType
           THEN (IF expected_type = VOID_T THEN add_error(V, "ProcedureReturnsValue")
                 ELSE IF ~is_assignable(V.ty, expected_type)
                 THEN add_error(V, "BadReturnType")
                 ELSE V)
           ELSE V)
     ELSE IF expected_type # NoType /\ expected_type # VOID_T
     THEN add_error(E, "MissingReturnValue")
     ELSE E)))

analyze_call_stmt(node, A) ==
  With(analyze_call_expr(node.call, A), LAMBDA C :
     IF C.ty # NoType /\ C.ty # VOID_T THEN add_error(C, "ResultNotUsed") ELSE C)

analyze_statement(node, A) ==
  CASE node.k = "AssignNode" -> analyze_assign(node, A)
    [] node.k = "IfNode" -> analyze_if(node, A)
    [] node.k = "ForNode" -> analyze_for(node, A)
    [] node.k = "WhileNode" -> analyze_while(node, A)
    [] node.k = "DoWhileNode" -> analyze_do_while(node, A)
    [] node.k \in {"BreakNode", "ContinueNode"} -> A
    [] node.k = "ReturnNode" -> analyze_return(node, A)
    [] node.k = "CallStmtNode" -> analyze_call_stmt(node, A)
    [] OTHER -> add_error(A, "UnknownStatement")

\* "for stmt in stmts: self.visit_statement(stmt)"; the test on S only makes
\* the evaluation of a statement precede that of its successors
analyze_statements(stmts, A) ==
  IF stmts = <<>> THEN A
  ELSE LET S == analyze_statement(stmts[1], A)
       IN IF Len(S.errors) >= 0 THEN analyze_statements(Tail(stmts), S) ELSE S

analyze_var_decl(node, A) ==
  With(analyze_type(node.var_type), LAMBDA t :
  LET E == [A EXCEPT !.errors = A.errors \o t.errs]
  IN
     IF t.ty = NoType THEN add_error(E, "UnknownType")
     ELSE ScopeDeclare(E, node.name, t.ty))

RECURSIVE analyze_var_decls(_, _)
analyze_var_decls(var_decls, A) ==
  IF var_decls = <<>> THEN A
  ELSE analyze_var_decls(Tail(var_decls), analyze_var_decl(var_decls[1], A))

\* the types of the parameters, or NoType at the first one without a type
RECURSIVE ParamTypes(_)
ParamTypes(params) ==
  IF params = <<>> THEN <<>>
  ELSE <<analyze_type(params[1].param_type).ty>> \o ParamTypes(Tail(params))

declare_function_signature(node, A) ==
  With(ParamTypes(node.params), LAMBDA param_types :
  With(
                     IF node.return_type # NoneNode
                     THEN analyze_type(node.return_type).ty ELSE NoType
    , LAMBDA return_type :
     IF \E i \in 1..Len(param_types) : param_types[i] = NoType
     THEN add_error(A, "UnknownParameterType")
     ELSE IF node.return_type # NoneNode /\ return_type = NoType
     THEN add_error(A, "UnknownReturnType")
     ELSE ScopeDeclare(A, node.name, FunctionType(param_types, return_type))))

RECURSIVE declare_function_signatures(_, _)
declare_function_signatures(func_decls, A) ==
  IF func_decls = <<>> THEN A
  ELSE declare_function_signatures(Tail(func_decls),
         declare_function_signature(func_decls[1], A))

RECURSIVE DeclareParams(_, _)
DeclareParams(params, A) ==
  IF params = <<>> THEN A
  ELSE LET t == analyze_type(params[1].param_type).ty
       IN DeclareParams(Tail(params),
            IF t # NoType THEN ScopeDeclare(A, params[1].name, t) ELSE A)

has_return_statement(block) ==
  \E i \in 1..Len(block.statements) : block.statements[i].k = "ReturnNode"

analyze_func_decl(node, A) ==
  LET old_function == A.current_function
  IN
  With(enter_scope([A EXCEPT !.current_function = node]), LAMBDA E :
  With(DeclareParams(node.params, E), LAMBDA P :
  With(analyze_block(node.block, P), LAMBDA B :
  With(
            IF node.return_type # NoneNode /\ ~has_return_statement(node.block)
            THEN add_error(B, "MissingReturnStatement") ELSE B
    , LAMBDA B1 :
     [exit_scope(B1) EXCEPT !.current_function = old_function]))))

RECURSIVE analyze_func_decls(_, _)
analyze_func_decls(func_decls, A) ==
  IF func_decls = <<>> THEN A
  ELSE analyze_func_decls(Tail(func_decls), analyze_func_decl(func_decls[1], A))

\* visit_block: variables, function signatures, function bodies, statements
analyze_block(node, A) ==
  analyze_statements(node.statements,
    analyze_func_decls(node.func_decls,
      declare_function_signatures(node.func_decls,
        analyze_var_decls(node.var_decls, A))))

\* analyze(ast): the list of errors
analyze(ast) == exit_scope(analyze_block(ast.block, enter_scope(AnalyzerStart))).errors

\* Interpreter.interpret: the analysis first, then visit_program; a
\* ReturnException that reaches the top is ignored.  status is "ok" or the
\* exception that left interpret().
interpret(ast) ==
  With(visit_block(ast.block, InterpStart), LAMBDA R :
     IF analyze(ast) # <<>>
     THEN [status |-> "SemanticErrors", out |-> <<>>, last |-> EmptyFrame,
           env |-> InterpStart.env]
     ELSE [status |-> IF R.exc \in {"", "return"} THEN "ok" ELSE R.exc,
           out |-> R.out, last |-> R.last, env |-> R.env])

(***************************************************************************)
(* vm_codegen.py.  The generator state is a record G with the fields of    *)
(* VMCodeGenerator; labels maps a label's name to the Label object (the    *)
(* stacks break_labels and continue_labels hold names, a Label being       *)
(* registered under its name for good); err is the exception that ended    *)
(* the generation, "" while there is none.                                 *)
(***************************************************************************)
GenStart ==
  [instructions |-> <<>>, constants |-> <<>>,
   global_vars |-> EmptyFrame, local_vars |-> EmptyFrame,
   globals_count |-> 0, locals_count |-> 0,
   labels |-> EmptyFrame, label_counter |-> 0,
   break_labels |-> <<>>, continue_labels |-> <<>>,
   functions |-> EmptyFrame, current_function |-> "", err |-> ""]

Label(name) == [name |-> name, marked |-> FALSE, address |-> 0, references |-> <<>>]

\* the first exception ends the generation
GRaise(G, e) == IF G.err # "" THEN G ELSE [G EXCEPT !.err = e]

emit(G, opcode, arg) ==
  [G EXCEPT !.instructions = Append(G.instructions, VMInstruction(opcode, arg))]

\* add_constant: "value in self.constant_map" hashes the value, and a list
\* is not hashable
add_constant(G, value) ==
  IF value.t = "list" THEN GRaise(G, "TypeError")
  ELSE IF \E i \in 1..Len(G.constants) : G.constants[i] = value THEN G
  ELSE [G EXCEPT !.constants = Append(G.constants, value)]
ConstantIndex(G, value) ==
  (CHOOSE i \in 1..Len(G.constants) : G.constants[i] = value) - 1

\* create_label(name) with a name: the Label registered under the name is
\* returned when there is one.  (No caller omits the name, so label_counter
\* is never incremented.)
create_label(G, name) ==
  IF name \in DOMAIN G.labels THEN G
  ELSE [G EXCEPT !.labels = Define(G.labels, name, Label(name))]

mark_label(G, name) ==
  [G EXCEPT !.labels[name].marked = TRUE,
            !.labels[name].address = Len(G.instructions)]

emit_jump(G, opcode, name) ==
  [emit(G, opcode, IntV(0)) EXCEPT
     !.labels[name].references = Append(@, Len(G.instructions))]

\* a resolve_labels that leaves every jump as emit_jump wrote it
resolve_nothing(G) == G

\* resolve_labels: every reference gets the address of its label
resolve_labels(G) ==
  IF \E name \in DOMAIN G.labels : ~G.labels[name].marked
  THEN GRaise(G, "UnresolvedLabel")
  ELSE [G EXCEPT !.instructions =
          [a \in 1..Len(G.instructions) |->
             IF \E name \in DOMAIN G.labels :
                  \E r \in 1..Len(G.labels[name].references) :
                    G.labels[name].references[r] = a - 1
             THEN [G.instructions[a] EXCEPT !.arg =
                     IntV(G.labels[CHOOSE name \in DOMAIN G.labels :
                            \E r \in 1..Len(G.labels[name].references) :
                              G.labels[name].references[r] = a - 1].address)]
             ELSE G.instructions[a]]]

emit_literal(G, value) ==
  IF IsInt(value) THEN emit(G, "PUSH_INT", value)
  ELSE LET C == add_constant(G, value)
       IN IF C.err # "" THEN C
          ELSE emit(C, "PUSH_CONST", IntV(ConstantIndex(C, value)))

get_default_value_for_type(type_node) ==
  IF type_node.k = "SimpleTypeNode"
  THEN (CASE type_node.name = "cel" -> IntV(0)
          [] type_node.name = "log" -> BoolV(FALSE)
          [] OTHER -> IntV(0))
  ELSE IF type_node.k = "ArrayTypeNode" /\ type_node.size.k = "IntLiteralNode"
  THEN ListV([i \in 1..type_node.size.value.n |->
                CASE type_node.element_type.name = "log" -> BoolV(FALSE)
                  [] OTHER -> IntV(0)])
  ELSE IntV(0)

\* "if name in self.local_vars ... elif name in self.global_vars ... else
\* raise": the access to a variable by name
EmitVar(G, name, local_op, global_op, message) ==
  IF name \in DOMAIN G.local_vars THEN emit(G, local_op, IntV(G.local_vars[name]))
  ELSE IF name \in DOMAIN G.global_vars THEN emit(G, global_op, IntV(G.global_vars[name]))
  ELSE GRaise(G, message)

\* the access to the loop variable after its first use in visit_for: no
\* third case
EmitLoopVar(G, name, local_op, global_op) ==
  IF name \in DOMAIN G.local_vars THEN emit(G, local_op, IntV(G.local_vars[name]))
  ELSE emit(G, global_op, IntV(G.global_vars[name]))

op_map ==
  [x \in {"+", "-", "*", "/", "div", "mod", "=", "<>", "<", "<=", ">", ">="} |->
     CASE x = "+" -> "ADD" [] x = "-" -> "SUB" [] x = "*" -> "MUL"
       [] x = "/" -> "DIV" [] x = "div" -> "IDIV" [] x = "mod" -> "MOD"
       [] x = "=" -> "EQ" [] x = "<>" -> "NE" [] x = "<" -> "LT"
       [] x = "<=" -> "LE" [] x = ">" -> "GT" [] x = ">=" -> "GE"]

RECURSIVE gen_expression(_, _)
RECURSIVE gen_expressions(_, _)
RECURSIVE gen_statement(_, _)
RECURSIVE gen_statements(_, _)
RECURSIVE gen_block(_, _, _)

gen_logical_op(node, G) ==
  With(emit(gen_expression(node.left, G), "DUP", NoneV), LAMBDA G0 :
  LET skip_label == IF node.op = "i" THEN "and_false_" \o ToString(G0.label_counter)
                    ELSE "or_true_" \o ToString(G0.label_counter)
  IN
  LET end_label == IF node.op = "i" THEN "and_end_" \o ToString(G0.label_counter)
                   ELSE "or_end_" \o ToString(G0.label_counter)
  IN
  With(create_label(create_label(G0, skip_label), end_label), LAMBDA G1 :
  With(
            emit_jump(G1, IF node.op = "i" THEN "JMP_IF_FALSE" ELSE "JMP_IF_TRUE",
                      skip_label)
    , LAMBDA G2 :
  With(gen_expression(node.right, emit(G2, "POP", NoneV)), LAMBDA G3 :
  With(emit_jump(G3, "JMP", end_label), LAMBDA G4 :
     IF G0.err # "" THEN G0
     ELSE IF G3.err # "" THEN G3
     ELSE mark_label(mark_label(G4, skip_label), end_label))))))

gen_arithmetic_op(node, G) ==
  With(gen_expression(node.left, G), LAMBDA L :
  With(gen_expression(node.right, L), LAMBDA R :
     IF L.err # "" THEN L
     ELSE IF R.err # "" THEN R
     ELSE IF node.op \in DOMAIN op_map THEN emit(R, op_map[node.op], NoneV)
     ELSE GRaise(R, "UnknownOperation")))

gen_bin_op(node, G) ==
  IF node.op \in {"i", "ili"} THEN gen_logical_op(node, G)
  ELSE gen_arithmetic_op(node, G)

gen_unary_op(node, G) ==
  With(gen_expression(node.operand, G), LAMBDA O :
     IF O.err # "" THEN O
     ELSE IF node.op = "-" THEN emit(O, "NEG", NoneV)
     ELSE IF node.op = "+" THEN O
     ELSE IF node.op = "ne" THEN emit(O, "NOT", NoneV)
     ELSE GRaise(O, "UnknownOperation"))

gen_array_access(node, G) ==
  With(gen_expression(node.array, G), LAMBDA R :
  With(gen_expression(node.index, R), LAMBDA X :
     IF R.err # "" THEN R
     ELSE IF X.err # "" THEN X
     ELSE emit(X, "LOAD_ARRAY", NoneV)))

gen_call_expr(node, G) ==
  LET name == node.name
  IN
  LET arg == node.args[1]
  IN
  With(gen_expression(arg, G), LAMBDA V :
  LET inc == name = "uvel"
  IN
  With(gen_expressions(node.args, G), LAMBDA A :
     IF name = "vyvod"
     THEN (IF Len(node.args) # 1 THEN GRaise(G, "BuiltinArity")
           ELSE IF V.err # "" THEN V
           ELSE emit(emit(V, "PRINT", NoneV), "PUSH_INT", IntV(0)))
     ELSE IF name \in {"uvel", "umen"}
     THEN (IF Len(node.args) # 1 THEN GRaise(G, "BuiltinArity")
           ELSE IF arg.k # "IdentifierNode" THEN GRaise(G, "BuiltinNeedsVariable")
           ELSE IF arg.name \in DOMAIN G.global_vars
           THEN emit(emit(G, IF inc THEN "INC" ELSE "DEC", IntV(G.global_vars[arg.name])),
                     "PUSH_INT", IntV(0))
           ELSE IF arg.name \in DOMAIN G.local_vars
           THEN emit(emit(emit(emit(emit(G,
                  "LOAD_LOCAL", IntV(G.local_vars[arg.name])),
                  "PUSH_INT", IntV(1)),
                  IF inc THEN "ADD" ELSE "SUB", NoneV),
                  "STORE_LOCAL", IntV(G.local_vars[arg.name])),
                  "PUSH_INT", IntV(0))
           ELSE GRaise(G, "UnknownVariable"))
     ELSE IF name = "modul"
     THEN (IF Len(node.args) # 1 THEN GRaise(G, "BuiltinArity")
           ELSE IF V.err # "" THEN V
           ELSE emit(V, "ABS", NoneV))
     ELSE IF name \notin DOMAIN G.functions THEN GRaise(G, "UnknownFunction")
     ELSE IF A.err # "" THEN A
     \* num_locals is always 0
     ELSE emit(A, "CALL", TupleV(<<IntV(A.functions[name]), IntV(0)>>))))

gen_expression(node, G) ==
  IF G.err # "" THEN G
  ELSE CASE node.k = "BinOpNode" -> gen_bin_op(node, G)
         [] node.k = "UnaryOpNode" -> gen_unary_op(node, G)
         [] node.k = "IdentifierNode" ->
              EmitVar(G, node.name, "LOAD_LOCAL", "LOAD_GLOBAL", "UnknownVariable")
         [] node.k = "ArrayAccessNode" -> gen_array_access(node, G)
         [] node.k = "CallNode" -> gen_call_expr(node, G)
         [] node.k \in {"IntLiteralNode", "BoolLiteralNode"} -> emit_literal(G, node.value)
         [] OTHER -> GRaise(G, "UnknownExpression")

gen_expressions(nodes, G) ==
  IF nodes = <<>> \/ G.err # "" THEN G
  ELSE gen_expressions(Tail(nodes), gen_expression(nodes[1], G))

gen_assign(node, G) ==
  With(gen_expression(node.value, G), LAMBDA V :
  With(gen_expression(node.target.array, V), LAMBDA R :
  With(gen_expression(node.target.index, R), LAMBDA X :
     IF V.err # "" THEN V
     ELSE IF node.target.k = "IdentifierNode"
     THEN EmitVar(V, node.target.name, "STORE_LOCAL", "STORE_GLOBAL", "UnknownVariable")
     ELSE IF node.target.k = "ArrayAccessNode"
     \* emitted: value, array, index, STORE_ARRAY
     THEN (IF X.err # "" THEN X ELSE emit(X, "STORE_ARRAY", NoneV))
     ELSE GRaise(V, "BadAssignTarget"))))

gen_if(node, G) ==
  With(gen_expression(node.condition, G), LAMBDA C :
  LET else_label == "else_" \o ToString(C.label_counter)
  IN
  LET end_label == "end_if_" \o ToString(C.label_counter)
  IN
  With(
           emit_jump(create_label(create_label(C, else_label), end_label),
                     "JMP_IF_FALSE", else_label)
    , LAMBDA J :
  With(gen_statements(node.then_block, J), LAMBDA T :
  With(mark_label(emit_jump(T, "JMP", end_label), else_label), LAMBDA M :
  With(gen_statements(node.else_block, M), LAMBDA E :
     IF C.err # "" THEN C
     ELSE IF T.err # "" THEN T
     ELSE IF E.err # "" THEN E
     ELSE mark_label(E, end_label))))))

\* the labels of a loop are pushed on entry and popped in the finally clause
PushLoop(G, break_label, continue_label) ==
  [G EXCEPT !.break_labels = Append(G.break_labels, break_label),
            !.continue_labels = Append(G.continue_labels, continue_label)]
PopLoop(G) ==
  [G EXCEPT !.break_labels = SubSeq(@, 1, Len(@) - 1),
            !.continue_labels = SubSeq(@, 1, Len(@) - 1)]

gen_for(node, G) ==
  With(gen_expression(node.start, G), LAMBDA S :
  With(EmitVar(S, node.var, "STORE_LOCAL", "STORE_GLOBAL", "UnknownVariable"), LAMBDA V :
  \* the nesting depth is the loop's identifier
  LET loop_id == ToString(Len(V.break_labels))
  IN
  LET loop_start == "for_start_" \o loop_id
  IN
  LET loop_continue == "for_continue_" \o loop_id
  IN
  LET loop_end == "for_end_" \o loop_id
  IN
  With(
           PushLoop(create_label(create_label(create_label(V, loop_start),
                                              loop_continue), loop_end),
                    loop_end, loop_continue)
    , LAMBDA L :
  With(
           gen_expression(node.end,
             EmitLoopVar(mark_label(L, loop_start), node.var, "LOAD_LOCAL", "LOAD_GLOBAL"))
    , LAMBDA C :
  \* variable <= end, whatever the step
  With(emit_jump(emit(C, "LE", NoneV), "JMP_IF_FALSE", loop_end), LAMBDA J :
  With(gen_statements(node.body, J), LAMBDA B :
  With(EmitLoopVar(mark_label(B, loop_continue), node.var, "LOAD_LOCAL", "LOAD_GLOBAL"), LAMBDA K :
  With(
           IF node.step # NoneNode THEN gen_expression(node.step, K)
           ELSE emit(K, "PUSH_INT", IntV(1))
    , LAMBDA T :
  With(EmitLoopVar(emit(T, "ADD", NoneV), node.var, "STORE_LOCAL", "STORE_GLOBAL"), LAMBDA U :
     IF S.err # "" THEN S
     ELSE IF V.err # "" THEN V
     ELSE IF C.err # "" THEN PopLoop(C)
     ELSE IF B.err # "" THEN PopLoop(B)
     ELSE IF T.err # "" THEN PopLoop(T)
     ELSE PopLoop(mark_label(emit_jump(U, "JMP", loop_start), loop_end)))))))))))

gen_while(node, G) ==
  LET loop_id == ToString(Len(G.break_labels))
  IN
  LET loop_start == "while_start_" \o loop_id
  IN
  LET loop_end == "while_end_" \o loop_id
  IN
  With(
           PushLoop(create_label(create_label(G, loop_start), loop_end),
                    loop_end, loop_start)
    , LAMBDA L :
  With(gen_expression(node.condition, mark_label(L, loop_start)), LAMBDA C :
  With(gen_statements(node.body, emit_jump(C, "JMP_IF_FALSE", loop_end)), LAMBDA B :
     IF C.err # "" THEN PopLoop(C)
     ELSE IF B.err # "" THEN PopLoop(B)
     ELSE PopLoop(mark_label(emit_jump(B, "JMP", loop_start), loop_end)))))

gen_do_while(node, G) ==
  LET loop_id == ToString(Len(G.break_labels))
  IN
  LET loop_start == "do_while_start_" \o loop_id
  IN
  LET loop_condition == "do_while_condition_" \o loop_id
  IN
  LET loop_end == "do_while_end_" \o loop_id
  IN
  With(
           PushLoop(create_label(create_label(create_label(G, loop_start),
                                              loop_condition), loop_end),
                    loop_end, loop_condition)
    , LAMBDA L :
  With(gen_statements(node.body, mark_label(L, loop_start)), LAMBDA B :
  With(gen_expression(node.condition, mark_label(B, loop_condition)), LAMBDA C :
     IF B.err # "" THEN PopLoop(B)
     ELSE IF C.err # "" THEN PopLoop(C)
     \* the body repeats while the condition is false
     ELSE PopLoop(mark_label(emit_jump(C, "JMP_IF_FALSE", loop_start), loop_end)))))

gen_break(G) ==
  IF G.break_labels = <<>> THEN GRaise(G, "OutsideLoop")
  ELSE emit_jump(G, "JMP", G.break_labels[Len(G.break_labels)])

gen_continue(G) ==
  IF G.continue_labels = <<>> THEN GRaise(G, "OutsideLoop")
  ELSE emit_jump(G, "JMP", G.continue_labels[Len(G.continue_labels)])

gen_return(node, G) ==
  With(IF node.value # NoneNode THEN gen_expression(node.value, G) ELSE G, LAMBDA V :
     IF V.err # "" THEN V ELSE emit(V, "RETURN", NoneV))

gen_call_stmt(node, G) ==
  With(gen_call_expr(node.call, G), LAMBDA C :
     IF C.err # "" THEN C ELSE emit(C, "POP", NoneV))

gen_statement(node, G) ==
  IF G.err # "" THEN G
  ELSE CASE node.k = "AssignNode" -> gen_assign(node, G)
         [] node.k = "IfNode" -> gen_if(node, G)
         [] node.k = "ForNode" -> gen_for(node, G)
         [] node.k = "WhileNode" -> gen_while(node, G)
         [] node.k = "DoWhileNode" -> gen_do_while(node, G)
         [] node.k = "BreakNode" -> gen_break(G)
         [] node.k = "ContinueNode" -> gen_continue(G)
         [] node.k = "ReturnNode" -> gen_return(node, G)
         [] node.k = "CallStmtNode" -> gen_call_stmt(node, G)
         [] OTHER -> GRaise(G, "UnknownStatement")

gen_statements(stmts, G) ==
  IF stmts = <<>> \/ G.err # "" THEN G
  ELSE gen_statements(Tail(stmts), gen_statement(stmts[1], G))

gen_var_decl(node, is_global, G) ==
  LET D == IF is_global
           THEN [G EXCEPT !.global_vars = Define(@, node.name, G.globals_count),
                          !.globals_count = @ + 1]
           ELSE [G EXCEPT !.local_vars = Define(@, node.name, G.locals_count),
                          !.locals_count = @ + 1]
  IN
  With(emit_literal(D, get_default_value_for_type(node.var_type)), LAMBDA L :
     IF L.err # "" THEN L
     ELSE IF is_global THEN emit(L, "STORE_GLOBAL", IntV(L.global_vars[node.name]))
     ELSE emit(L, "STORE_LOCAL", IntV(L.local_vars[node.name])))

RECURSIVE gen_var_decls(_, _, _)
gen_var_decls(var_decls, is_global, G) ==
  IF var_decls = <<>> \/ G.err # "" THEN G
  ELSE gen_var_decls(Tail(var_decls), is_global, gen_var_decl(var_decls[1], is_global, G))

\* declare_function for each declaration: the address is not known yet
RECURSIVE declare_functions(_, _)
declare_functions(func_decls, G) ==
  IF func_decls = <<>> THEN G
  ELSE declare_functions(Tail(func_decls),
         [G EXCEPT !.functions = Define(@, func_decls[1].name, -1)])

\* visit_func_decl: the body is generated where the generator stands; a
\* RETURN is appended for a procedure only; the parameters are not
\* registered as variables
gen_func_decl(node, G) ==
  LET F == [G EXCEPT !.functions = Define(@, node.name, Len(G.instructions)),
                     !.current_function = node.name]
  IN
  With(gen_block(node.block, FALSE, F), LAMBDA B :
  With(IF node.return_type = NoneNode THEN emit(B, "RETURN", NoneV) ELSE B, LAMBDA R :
     IF B.err # "" THEN B
     ELSE [R EXCEPT !.current_function = G.current_function]))

RECURSIVE gen_func_decls(_, _)
gen_func_decls(func_decls, G) ==
  IF func_decls = <<>> \/ G.err # "" THEN G
  ELSE gen_func_decls(Tail(func_decls), gen_func_decl(func_decls[1], G))

\* visit_block: declarations, then the code of the functions, then the
\* statements; a block that is not global starts from no local variables
\* and restores the former ones at its end
gen_block(node, is_global, G) ==
  LET E == IF is_global THEN G
           ELSE [G EXCEPT !.locals_count = 0, !.local_vars = EmptyFrame]
  IN
  With(
           gen_statements(node.statements,
             gen_func_decls(node.func_decls,
               declare_functions(node.func_decls,
                 gen_var_decls(node.var_decls, is_global, E))))
    , LAMBDA S :
     IF is_global THEN S
     ELSE [S EXCEPT !.local_vars = G.local_vars, !.locals_count = G.locals_count])

\* generate: analysis, code of the program, HALT, resolution of the labels.
\* The result has status "ok" and the program, or the exception.
generate(ast) ==
  With(resolve_labels(emit(gen_block(ast.block, TRUE, GenStart), "HALT", NoneV)), LAMBDA G :
  With(gen_block(ast.block, TRUE, GenStart), LAMBDA B :
  With(VMProgram(<<>>, <<>>, 0), LAMBDA none :
     IF analyze(ast) # <<>> THEN [status |-> "SemanticErrors", program |-> none]
     ELSE IF B.err # "" THEN [status |-> B.err, program |-> none]
     ELSE IF G.err # "" THEN [status |-> G.err, program |-> none]
     ELSE [status |-> "ok",
           program |-> VMProgram(G.constants, G.instructions, G.globals_count)])))

compile_to_vm(ast) == generate(ast)

\* the VMCodeGenerator of compile_to_vm when generate is over: as it was
\* made when the analysis fails, as the exception left it, or after
\* resolve_labels
GeneratorOf(ast) ==
  With(gen_block(ast.block, TRUE, GenStart), LAMBDA B :
     IF analyze(ast) # <<>> THEN GenStart
     ELSE IF B.err # "" THEN B
     ELSE resolve_labels(emit(B, "HALT", NoneV)))

\* run_vm_program on the result of a compilation: status "ok" and the
\* output, or the error that ended the run (with the output so far)
VMResult(vm) ==
  [status |-> IF vm.error = "" THEN "ok" ELSE vm.error, out |-> vm.output,
   globals |-> vm.globals, stack |-> vm.stack]
run_vm_program(program) == VMResult(run(program))



(***************************************************************************)
(* optim.py, ConstantFolder.  A visitor returns the optimized node;        *)
(* a statement visitor returns NoneNode for a statement that is removed.   *)
(***************************************************************************)
is_constant(node) == node.k \in {"IntLiteralNode", "BoolLiteralNode"}

\* create_constant_node: isinstance(value, int) is tested first, and it
\* holds of a bool
create_constant_node(value) ==
  IF IsInt(value) THEN IntLiteralNode(value)
  ELSE IF IsBool(value) THEN BoolLiteralNode(value)
  ELSE NoneNode

\* evaluate_constant_expression on two literal nodes; NoneNode when nothing
\* is folded (a zero divisor, an operator that is not listed)
evaluate_constant_expression(op, left, right) ==
  LET l == left.value.n
  IN
  LET r == right.value.n
  IN
     CASE op = "+" -> create_constant_node(IntV(l + r))
       [] op = "-" -> create_constant_node(IntV(l - r))
       [] op = "*" -> create_constant_node(IntV(l * r))
       [] op \in {"/", "div"} ->
            IF r = 0 THEN NoneNode ELSE create_constant_node(IntV(PyFloorDiv(l, r)))
       [] op = "mod" ->
            IF r = 0 THEN NoneNode ELSE create_constant_node(IntV(PyMod(l, r)))
       [] op = "=" -> create_constant_node(BoolV(l = r))
       [] op = "<>" -> create_constant_node(BoolV(l # r))
       [] op = "<" -> create_constant_node(BoolV(l < r))
       [] op = "<=" -> create_constant_node(BoolV(l <= r))
       [] op = ">" -> create_constant_node(BoolV(l > r))
       [] op = ">=" -> create_constant_node(BoolV(l >= r))
       [] op = "i" -> create_constant_node(BoolV(l # 0 /\ r # 0))
       [] op = "ili" -> create_constant_node(BoolV(l # 0 \/ r # 0))
       [] OTHER -> NoneNode

evaluate_unary_constant(op, operand) ==
  CASE op = "-" -> create_constant_node(IntV(-operand.value.n))
    [] op = "+" -> create_constant_node(operand.value)
    [] op = "ne" -> create_constant_node(BoolV(operand.value.n = 0))
    [] OTHER -> NoneNode

\* apply_algebraic_optimizations: the first rule that matches, in the
\* order of the source; NoneNode when none does
apply_algebraic_optimizations(op, left, right) ==
  LET int_is(node, v) == node.k = "IntLiteralNode" /\ node.value.n = v
  IN
  LET bool_is(node, b) == node.k = "BoolLiteralNode" /\ (node.value.n # 0) = b
  IN
     CASE op = "+" /\ int_is(right, 0) -> left
       [] op = "+" /\ ~int_is(right, 0) /\ int_is(left, 0) -> right
       [] op = "-" /\ int_is(right, 0) -> left
       [] op = "*" /\ int_is(right, 1) -> left
       [] op = "*" /\ ~int_is(right, 1) /\ int_is(left, 1) -> right
       [] op = "*" /\ ~int_is(right, 1) /\ ~int_is(left, 1) /\ int_is(right, 0) ->
            IntLiteralNode(IntV(0))
       [] op = "*" /\ ~int_is(right, 1) /\ ~int_is(left, 1) /\ ~int_is(right, 0)
            /\ int_is(left, 0) -> IntLiteralNode(IntV(0))
       [] op \in {"/", "div"} /\ int_is(right, 1) -> left
       [] op = "i" /\ bool_is(right, TRUE) -> left
       [] op = "i" /\ ~bool_is(right, TRUE) /\ bool_is(left, TRUE) -> right
       [] op = "i" /\ ~bool_is(right, TRUE) /\ ~bool_is(left, TRUE)
            /\ (bool_is(right, FALSE) \/ bool_is(left, FALSE)) ->
            BoolLiteralNode(BoolV(FALSE))
       [] op = "ili" /\ bool_is(right, FALSE) -> left
       [] op = "ili" /\ ~bool_is(right, FALSE) /\ bool_is(left, FALSE) -> right
       [] op = "ili" /\ ~bool_is(right, FALSE) /\ ~bool_is(left, FALSE)
            /\ (bool_is(right, TRUE) \/ bool_is(left, TRUE)) ->
            BoolLiteralNode(BoolV(TRUE))
       [] OTHER -> NoneNode

RECURSIVE fold_expression(_)
RECURSIVE fold_statement(_)
RECURSIVE fold_statements(_)
RECURSIVE fold_block(_)

fold_bin_op(node) ==
  With(fold_expression(node.left), LAMBDA optimized_left :
  With(fold_expression(node.right), LAMBDA optimized_right :
  With(evaluate_constant_expression(node.op, optimized_left, optimized_right), LAMBDA result :
  With(apply_algebraic_optimizations(node.op, optimized_left, optimized_right), LAMBDA optimized :
     IF is_constant(optimized_left) /\ is_constant(optimized_right) /\ result # NoneNode
     THEN result
     ELSE IF optimized # NoneNode THEN optimized
     ELSE BinOpNode(optimized_left, node.op, optimized_right)))))

fold_unary_op(node) ==
  With(fold_expression(node.operand), LAMBDA optimized_operand :
  With(evaluate_unary_constant(node.op, optimized_operand), LAMBDA result :
     IF is_constant(optimized_operand) /\ result # NoneNode THEN result
     ELSE UnaryOpNode(node.op, optimized_operand)))

fold_call_expr(node) ==
  CallNode(node.name, [i \in 1..Len(node.args) |-> fold_expression(node.args[i])])

fold_expression(node) ==
  CASE node.k = "BinOpNode" -> fold_bin_op(node)
    [] node.k = "UnaryOpNode" -> fold_unary_op(node)
    [] node.k = "ArrayAccessNode" ->
         ArrayAccessNode(fold_expression(node.array), fold_expression(node.index))
    [] node.k = "CallNode" -> fold_call_expr(node)
    [] OTHER -> node

\* visit_if: a condition that folds to a BoolLiteralNode selects its branch
fold_if(node) ==
  With(fold_expression(node.condition), LAMBDA optimized_condition :
  With(
               IF optimized_condition.value.n # 0 THEN fold_statements(node.then_block)
               ELSE fold_statements(node.else_block)
    , LAMBDA taken :
     IF optimized_condition.k = "BoolLiteralNode"
     THEN (IF Len(taken) = 1 THEN taken[1]
           ELSE IF Len(taken) > 1 THEN IfNode(BoolLiteralNode(BoolV(TRUE)), taken, <<>>)
           ELSE NoneNode)
     ELSE IfNode(optimized_condition, fold_statements(node.then_block),
                 fold_statements(node.else_block))))

fold_while(node) ==
  With(fold_expression(node.condition), LAMBDA optimized_condition :
     IF optimized_condition.k = "BoolLiteralNode" /\ optimized_condition.value.n = 0
     THEN NoneNode
     ELSE WhileNode(optimized_condition, fold_statements(node.body)))

fold_statement(node) ==
  CASE node.k = "AssignNode" -> AssignNode(node.target, fold_expression(node.value))
    [] node.k = "IfNode" -> fold_if(node)
    [] node.k = "ForNode" ->
         ForNode(node.var, fold_expression(node.start), fold_expression(node.end),
                 IF node.step # NoneNode THEN fold_expression(node.step) ELSE NoneNode,
                 fold_statements(node.body))
    [] node.k = "WhileNode" -> fold_while(node)
    [] node.k = "DoWhileNode" ->
         DoWhileNode(fold_statements(node.body), fold_expression(node.condition))
    [] node.k = "ReturnNode" ->
         ReturnNode(IF node.value # NoneNode THEN fold_expression(node.value)
                    ELSE NoneNode)
    [] node.k = "CallStmtNode" -> CallStmtNode(fold_call_expr(node.call))
    [] OTHER -> node

\* "optimized_stmt = self.visit_statement(stmt); if optimized_stmt: append"
fold_statements(stmts) ==
  IF stmts = <<>> THEN <<>>
  ELSE LET optimized_stmt == fold_statement(stmts[1])
       IN (IF optimized_stmt # NoneNode THEN <<optimized_stmt>> ELSE <<>>)
          \o fold_statements(Tail(stmts))

fold_func_decl(node) ==
  FuncDeclNode(node.name, node.params, node.return_type, fold_block(node.block))

fold_block(node) ==
  BlockNode(node.var_decls,
            [i \in 1..Len(node.func_decls) |-> fold_func_decl(node.func_decls[i])],
            fold_statements(node.statements))

\* optimize_ast(ast) with constant folding enabled
optimize_ast(ast) == ProgramNode(ast.name, fold_block(ast.block))

(***************************************************************************)
(* optim.py, PeepholeOptimizer.                                            *)
(***************************************************************************)
\* One turn of the loop of optimize() at the 0-based position i of code:
\* the instructions appended to optimized_code and the number of
\* instructions consumed.  The patterns are tried in the order of the
\* source; jump targets are copied as they are.
PeepholeAt(code, i) ==
  LET n == Len(code)
  IN
  LET c0 == code[i + 1]
  IN
  LET c1 == code[i + 2]
  IN
  LET c2 == code[i + 3]
  IN
  LET arg_is(ins, v) == IsInt(ins.arg) /\ ins.arg.n = v
  IN
  LET push_int(ins) == ins.opcode = "PUSH_INT"
  IN
  LET is_push(ins) == ins.opcode \in {"PUSH_CONST", "PUSH_INT", "PUSH_BOOL",
                                      "PUSH_CHAR", "PUSH_STRING"}
  IN
  LET rw(out, used) == [out |-> out, used |-> used]
  IN
     IF i + 1 < n /\ is_push(c0) /\ c1.opcode = "POP" THEN rw(<<>>, 2)
     ELSE IF i + 1 < n /\ push_int(c0) /\ arg_is(c0, 0) /\ c1.opcode = "ADD"
     THEN rw(<<>>, 2)
     ELSE IF i + 1 < n /\ push_int(c0) /\ arg_is(c0, 1) /\ c1.opcode = "MUL"
     THEN rw(<<>>, 2)
     ELSE IF i + 1 < n /\ push_int(c0) /\ arg_is(c0, 0) /\ c1.opcode = "MUL"
     THEN rw(<<VMInstruction("PUSH_INT", IntV(0))>>, 2)
     ELSE IF i + 1 < n /\ push_int(c0) /\ arg_is(c0, 1) /\ c1.opcode = "DIV"
     THEN rw(<<>>, 2)
     ELSE IF i + 2 < n /\ push_int(c0) /\ push_int(c1) /\ c2.opcode = "ADD"
     THEN rw(<<VMInstruction("PUSH_INT", IntV(c0.arg.n + c1.arg.n))>>, 3)
     ELSE IF i + 2 < n /\ push_int(c0) /\ push_int(c1) /\ c2.opcode = "SUB"
     THEN rw(<<VMInstruction("PUSH_INT", IntV(c0.arg.n - c1.arg.n))>>, 3)
     ELSE IF i + 2 < n /\ push_int(c0) /\ push_int(c1) /\ c2.opcode = "MUL"
     THEN rw(<<VMInstruction("PUSH_INT", IntV(c0.arg.n * c1.arg.n))>>, 3)
     ELSE IF i + 1 < n /\ c0.opcode = "JMP_IF_FALSE" /\ c1.opcode = "JMP"
             /\ arg_is(c0, i + 2)
     THEN rw(<<VMInstruction("JMP_IF_TRUE", c1.arg)>>, 2)
     ELSE IF c0.opcode = "NOP" THEN rw(<<>>, 1)
     ELSE rw(<<c0>>, 1)

\* the loop "while i < len(program.code)"
RECURSIVE PeepholeLoop(_, _, _)
PeepholeLoop(code, i, optimized_code) ==
  IF i >= Len(code) THEN optimized_code
  ELSE LET r == PeepholeAt(code, i)
       IN PeepholeLoop(code, i + r.used, optimized_code \o r.out)

\* optimize_bytecode(program) with the peephole pass enabled
optimize_bytecode(program) ==
  VMProgram(program.constants, PeepholeLoop(program.code, 0, <<>>),
            program.globals_count)

(***************************************************************************)
(* vm_core.py, VMProgram.to_dict / from_dict.  A code entry of the         *)
(* dictionary is the pair (opcode.value, arg); OpCodeValue is the value of *)
(* an enum member, and OpCode(value) looks the member up by its value.     *)
(***************************************************************************)
OpCodeValue ==
  [m \in OpCode |-> m]

OpCodeOf(opcode_str) == CHOOSE m \in OpCode : OpCodeValue[m] = opcode_str

to_dict(program) ==
  [constants |-> program.constants,
   code |-> [i \in 1..Len(program.code) |->
               <<OpCodeValue[program.code[i].opcode], program.code[i].arg>>],
   globals_count |-> program.globals_count]

from_dict(data) ==
  VMProgram(data.constants,
            [i \in 1..Len(data.code) |->
               VMInstruction(OpCodeOf(data.code[i][1]), data.code[i][2])],
            data.globals_count)

(***************************************************************************)
(* The programs of a session.  A session reads one input: a source         *)
(* program (cmd_run, cmd_compile of main.py) or a bytecode file (cmd_vm).  *)
(* The inputs are families of programs over small literals; inp holds the  *)
(* parameters of the input and SourceOf / FileOf build its text.           *)
(***************************************************************************)
MaxLit == 2
MaxArr == 2

Lits == 0..MaxLit
BinOps == ARITHMETIC_OPS \cup COMPARISON_OPS
Steps == {-2, -1, 1, 2}
ShortOps == {"i", "ili"}

\* an integer written in the source: a literal, or minus a literal
Num(n) == IF n < 0 THEN UnaryOpNode("-", IntLiteralNode(IntV(-n)))
          ELSE IntLiteralNode(IntV(n))

VarInt(name) == VarDeclNode(name, SimpleTypeNode("cel"))
VarBool(name) == VarDeclNode(name, SimpleTypeNode("log"))
VarArr(name, n) ==
  VarDeclNode(name, ArrayTypeNode(IntLiteralNode(IntV(n)), SimpleTypeNode("cel")))
Vyvod(e) == CallStmtNode(CallNode("vyvod", <<e>>))
Main(var_decls, statements) ==
  ProgramNode("p", BlockNode(var_decls, <<>>, statements))

\* vyvod(x op y), or a := x; vyvod(a op y)
ExprInputs ==
  [kind : {"expr"}, form : {"lit", "var"}, op : BinOps, x : Lits, y : Lits]
ExprProgram(i) ==
  IF i.form = "lit"
  THEN Main(<<VarInt("a")>>, <<Vyvod(BinOpNode(Num(i.x), i.op, Num(i.y)))>>)
  ELSE Main(<<VarInt("a")>>,
            <<AssignNode(IdentifierNode("a"), Num(i.x)),
              Vyvod(BinOpNode(IdentifierNode("a"), i.op, Num(i.y)))>>)

\* p := a1 op1 (1 / z1 = 1)  and, when count = 2,  q := a2 op2 (1 / 1 = 1):
\* the right operand raises a division by zero when it is evaluated with
\* z = 0
Risky(z) == BinOpNode(BinOpNode(Num(1), "/", Num(z)), "=", Num(1))
LogicExpr(a, op, z) ==
  BinOpNode(BoolLiteralNode(BoolV(a)), op, Risky(z))
LogicInputs ==
  [kind : {"logic"}, count : {1}, a1 : BOOLEAN, op1 : ShortOps, z1 : Lits,
   a2 : {FALSE}, op2 : {"i"}]
  \cup [kind : {"logic"}, count : {2}, a1 : BOOLEAN, op1 : ShortOps,
        z1 : Lits, a2 : BOOLEAN, op2 : ShortOps]
LogicProgram(i) ==
  LET first == AssignNode(IdentifierNode("p"), LogicExpr(i.a1, i.op1, i.z1))
      second == AssignNode(IdentifierNode("q"), LogicExpr(i.a2, i.op2, 1))
  IN Main(<<VarBool("p"), VarBool("q")>>,
          IF i.count = 1 THEN <<first>> ELSE <<first, second>>)

\* var t: array[n] of cel;  t[i] := v; vyvod(t[j]); vyvod(7)
ArrayInputs ==
  [kind : {"array"}, n : 1..MaxArr, i : -1..(MaxArr + 1),
   j : -1..(MaxArr + 1), v : 1..MaxLit]
ArrayStore(i) ==
  AssignNode(ArrayAccessNode(IdentifierNode("t"), Num(i.i)), Num(i.v))
ArrayLoad(i) == Vyvod(ArrayAccessNode(IdentifierNode("t"), Num(i.j)))
ArrayProgram(i) ==
  Main(<<VarArr("t", i.n)>>, <<ArrayStore(i), ArrayLoad(i), Vyvod(Num(7))>>)




\* for v from s to e [step k] do vyvod(v)
ForInputs ==
  [kind : {"for"}, s : Lits, e : Lits, has_step : {TRUE}, step : Steps]
  \cup [kind : {"for"}, s : Lits, e : Lits, has_step : {FALSE}, step : {1}]
ForProgram(i) ==
  Main(<<VarInt("v")>>,
       <<ForNode("v", Num(i.s), Num(i.e),
                 IF i.has_step THEN Num(i.step) ELSE NoneNode,
                 <<Vyvod(IdentifierNode("v"))>>)>>)

\* for v from 1 to f do vyvod(v);  for w from s to e do vyvod(w)
For2Inputs == [kind : {"for2"}, f : 1..MaxLit, s : Lits, e : Lits]
For2Program(i) ==
  Main(<<VarInt("v"), VarInt("w")>>,
       <<ForNode("v", Num(1), Num(i.f), NoneNode, <<Vyvod(IdentifierNode("v"))>>),
         ForNode("w", Num(i.s), Num(i.e), NoneNode, <<Vyvod(IdentifierNode("w"))>>)>>)

\* a := x; vyvod(1); if a op y then vyvod(2) [else vyvod(3)]; vyvod(4)
IfInputs ==
  [kind : {"if"}, op : {"<", "="}, x : Lits, y : Lits, has_else : BOOLEAN]
IfProgram(i) ==
  Main(<<VarInt("a")>>,
       <<AssignNode(IdentifierNode("a"), Num(i.x)),
         Vyvod(Num(1)),
         IfNode(BinOpNode(IdentifierNode("a"), i.op, Num(i.y)),
                <<Vyvod(Num(2))>>,
                IF i.has_else THEN <<Vyvod(Num(3))>> ELSE <<>>),
         Vyvod(Num(4))>>)

\* a := s; do vyvod(a); a := a + 1 until a > e
DoWhileInputs == [kind : {"dowhile"}, s : Lits, e : Lits]
DoWhileProgram(i) ==
  Main(<<VarInt("a")>>,
       <<AssignNode(IdentifierNode("a"), Num(i.s)),
         DoWhileNode(<<Vyvod(IdentifierNode("a")),
                       AssignNode(IdentifierNode("a"),
                                  BinOpNode(IdentifierNode("a"), "+", Num(1)))>>,
                     BinOpNode(IdentifierNode("a"), ">", Num(i.e)))>>)

\* Programs with a function, over the program variable a:
\*   "global_read"   func g: cel  return a;       a := v; vyvod(g())
\*   "global_write"  proc h       a := v;         h(); vyvod(a)
\*   "arg_lit"       func f(x): cel return x + 1; vyvod(f(v))
\*   "arg_var"       the same f;                  a := v; vyvod(f(a))
\*   "arg_param"     func d(x): cel return x; func f(x): cel return d(x);
\*                   vyvod(f(v))
FuncForms == {"global_read", "global_write", "arg_lit", "arg_var", "arg_param"}
FuncInputs == [kind : {"func"}, form : FuncForms, v : 1..MaxLit]
IntParam(name) == ParamNode(name, SimpleTypeNode("cel"))
IntFunc(name, params, statements) ==
  FuncDeclNode(name, params, SimpleTypeNode("cel"), BlockNode(<<>>, <<>>, statements))
Call1(name, arg) == CallNode(name, <<arg>>)
FuncProgram(i) ==
  LET a == IdentifierNode("a")
      x == IdentifierNode("x")
      g == IntFunc("g", <<>>, <<ReturnNode(a)>>)
      h == FuncDeclNode("h", <<>>, NoneNode,
                        BlockNode(<<>>, <<>>, <<AssignNode(a, Num(i.v))>>))
      f == IntFunc("f", <<IntParam("x")>>, <<ReturnNode(BinOpNode(x, "+", Num(1)))>>)
      d == IntFunc("d", <<IntParam("x")>>, <<ReturnNode(x)>>)
      fd == IntFunc("f", <<IntParam("x")>>, <<ReturnNode(Call1("d", x))>>)
      block(func_decls, statements) ==
        ProgramNode("p", BlockNode(<<VarInt("a")>>, func_decls, statements))
  IN CASE i.form = "global_read" ->
            block(<<g>>, <<AssignNode(a, Num(i.v)), Vyvod(CallNode("g", <<>>))>>)
       [] i.form = "global_write" ->
            block(<<h>>, <<CallStmtNode(CallNode("h", <<>>)), Vyvod(a)>>)
       [] i.form = "arg_lit" -> block(<<f>>, <<Vyvod(Call1("f", Num(i.v)))>>)
       [] i.form = "arg_var" ->
            block(<<f>>, <<AssignNode(a, Num(i.v)), Vyvod(Call1("f", a))>>)
       [] i.form = "arg_param" -> block(<<d, fd>>, <<Vyvod(Call1("f", Num(i.v)))>>)

\* vyvod(x op y), or a := x; vyvod(a op y), for a division of integers of
\* either sign by an integer other than 0
DivOps == {"/", "div"}
Signed == (-MaxLit)..MaxLit
DivInputs ==
  [kind : {"div"}, form : {"lit", "var"}, op : DivOps, x : Signed,
   y : Signed \ {0}]

\* a := x; vyvod(1); vyvod(x op 0) or vyvod(a op 0); vyvod(4)
DivModOps == {"/", "div", "mod"}
DivZeroInputs ==
  [kind : {"divzero"}, form : {"lit", "var"}, op : DivModOps, x : Lits]
DivZeroProgram(i) ==
  Main(<<VarInt("a")>>,
       <<AssignNode(IdentifierNode("a"), Num(i.x)),
         Vyvod(Num(1)),
         Vyvod(BinOpNode(IF i.form = "lit" THEN Num(i.x) ELSE IdentifierNode("a"),
                         i.op, Num(0))),
         Vyvod(Num(4))>>)

\* vyvod of a Boolean literal, of a Boolean variable (p := b; vyvod(p)) or
\* of an integer
PrintInputs ==
  [kind : {"print"}, form : {"bool_lit", "bool_var"}, b : BOOLEAN, x : {0}]
  \cup [kind : {"print"}, form : {"int"}, b : {FALSE}, x : Signed]
PrintProgram(i) ==
  Main(<<VarBool("p")>>,
       CASE i.form = "bool_lit" -> <<Vyvod(BoolLiteralNode(BoolV(i.b)))>>
         [] i.form = "bool_var" ->
              <<AssignNode(IdentifierNode("p"), BoolLiteralNode(BoolV(i.b))),
                Vyvod(IdentifierNode("p"))>>
         [] i.form = "int" -> <<Vyvod(Num(i.x))>>)

\* Two if statements over a := x, one after the other or one in the other:
\*   "seq"   if a = y1 then vyvod(1) else vyvod(2);
\*           if a = y2 then vyvod(3) else vyvod(4)
\*   "nest"  if a >= y1 then (if a = y2 then vyvod(3) else vyvod(4))
\*           else vyvod(2)
If2Inputs == [kind : {"if2"}, shape : {"seq", "nest"}, x : Lits, y1 : Lits, y2 : Lits]
If2Program(i) ==
  LET a == IdentifierNode("a")
      second == IfNode(BinOpNode(a, "=", Num(i.y2)), <<Vyvod(Num(3))>>, <<Vyvod(Num(4))>>)
  IN Main(<<VarInt("a")>>,
          IF i.shape = "seq"
          THEN <<AssignNode(a, Num(i.x)),
                 IfNode(BinOpNode(a, "=", Num(i.y1)), <<Vyvod(Num(1))>>, <<Vyvod(Num(2))>>),
                 second>>
          ELSE <<AssignNode(a, Num(i.x)),
                 IfNode(BinOpNode(a, ">=", Num(i.y1)), <<second>>, <<Vyvod(Num(2))>>)>>)

\* Two loops:
\*   "while_seq"  a := 0; while a < f do vyvod(a); a := a + 1;
\*                while a < e do vyvod(a); a := a + 1
\*   "for_nest"   for v from 1 to f do for w from 1 to e do vyvod(w)
Loop2Inputs == [kind : {"loop2"}, shape : {"while_seq", "for_nest"}, f : 1..MaxLit, e : Lits]
Loop2Program(i) ==
  LET a == IdentifierNode("a")
      count(n) == WhileNode(BinOpNode(a, "<", Num(n)),
                            <<Vyvod(a), AssignNode(a, BinOpNode(a, "+", Num(1)))>>)
  IN IF i.shape = "while_seq"
     THEN Main(<<VarInt("a")>>, <<AssignNode(a, Num(0)), count(i.f), count(i.e)>>)
     ELSE Main(<<VarInt("v"), VarInt("w")>>,
               <<ForNode("v", Num(1), Num(i.f), NoneNode,
                         <<ForNode("w", Num(1), Num(i.e), NoneNode,
                                   <<Vyvod(IdentifierNode("w"))>>)>>)>>)

\* Programs with a break or a continue.  The loop of the statement counts
\* x: a for-loop from 0 to 1, or x := 0 and a while-loop (x < 2) or a
\* do-until loop (x > 1) that adds 1 to x first; its body is
\*   vyvod(x); break | continue; vyvod(9)
\*   "outside"  vyvod(1); the statement; vyvod(7)
\*   "single"   the loop over a; vyvod(7)
\*   "nested"   for a from 0 to 1 do (the loop over b; vyvod(7))
\*   "seq"      the loop over a; a loop of the same kind over b with the
\*              body vyvod(b); vyvod(7)
BrkLoops == {"for", "while", "dowhile"}
BrkShapes == {"outside", "single", "nested", "seq"}
BrkInputs ==
  [kind : {"brk"}, loop : BrkLoops, stmt : {"break", "continue"}, shape : BrkShapes]
Incr(x) == AssignNode(IdentifierNode(x), BinOpNode(IdentifierNode(x), "+", Num(1)))
BrkLoop(loop, x, body) ==
  CASE loop = "for" -> <<ForNode(x, Num(0), Num(1), NoneNode, body)>>
    [] loop = "while" ->
         <<AssignNode(IdentifierNode(x), Num(0)),
           WhileNode(BinOpNode(IdentifierNode(x), "<", Num(2)), <<Incr(x)>> \o body)>>
    [] OTHER ->
         <<AssignNode(IdentifierNode(x), Num(0)),
           DoWhileNode(<<Incr(x)>> \o body, BinOpNode(IdentifierNode(x), ">", Num(1)))>>
BrkBody(i, x) ==
  <<Vyvod(IdentifierNode(x)),
    IF i.stmt = "break" THEN BreakNode ELSE ContinueNode,
    Vyvod(Num(9))>>
BrkProgram(i) ==
  CASE i.shape = "outside" ->
         Main(<<VarInt("a")>>,
              <<Vyvod(Num(1)), IF i.stmt = "break" THEN BreakNode ELSE ContinueNode,
                Vyvod(Num(7))>>)
    [] i.shape = "single" ->
         Main(<<VarInt("a")>>, BrkLoop(i.loop, "a", BrkBody(i, "a")) \o <<Vyvod(Num(7))>>)
    [] i.shape = "nested" ->
         Main(<<VarInt("a"), VarInt("b")>>,
              <<ForNode("a", Num(0), Num(1), NoneNode,
                        BrkLoop(i.loop, "b", BrkBody(i, "b")) \o <<Vyvod(Num(7))>>)>>)
    [] OTHER ->
         Main(<<VarInt("a"), VarInt("b")>>,
              BrkLoop(i.loop, "a", BrkBody(i, "a"))
                \o BrkLoop(i.loop, "b", <<Vyvod(IdentifierNode("b"))>>)
                \o <<Vyvod(Num(7))>>)

\* For-loops whose bound or step depends on a variable:
\*   "end"   n := e; for v from 0 to n do (vyvod(v); n := n - 1)
\*   "step"  k := 1; for v from 0 to e step k do (vyvod(v); k := k + 1)
\*   "var"   for v from e to v + 1 do vyvod(v)
ForOnceForms == {"end", "step", "var"}
ForOnceInputs == [kind : {"foronce"}, form : ForOnceForms, e : Lits]
ForOnceProgram(i) ==
  CASE i.form = "end" ->
         Main(<<VarInt("v"), VarInt("n")>>,
              <<AssignNode(IdentifierNode("n"), Num(i.e)),
                ForNode("v", Num(0), IdentifierNode("n"), NoneNode,
                        <<Vyvod(IdentifierNode("v")),
                          AssignNode(IdentifierNode("n"),
                                     BinOpNode(IdentifierNode("n"), "-", Num(1)))>>)>>)
    [] i.form = "step" ->
         Main(<<VarInt("v"), VarInt("k")>>,
              <<AssignNode(IdentifierNode("k"), Num(1)),
                ForNode("v", Num(0), Num(i.e), IdentifierNode("k"),
                        <<Vyvod(IdentifierNode("v")), Incr("k")>>)>>)
    [] OTHER ->
         Main(<<VarInt("v")>>,
              <<ForNode("v", Num(i.e), BinOpNode(IdentifierNode("v"), "+", Num(1)),
                        NoneNode, <<Vyvod(IdentifierNode("v"))>>)>>)

\* Programs with procedures that call each other, over the program
\* variable a.  The procedure g is  vyvod(v);  the caller f is  g();  the
\* recursive f is  vyvod(v); if a < 1 then (a := a + 1; f()).
\*   "main"       g;      statements g()
\*   "backward"   g, f;   statements f()
\*   "forward"    f, g;   statements f()
\*   "recursive"  the recursive f;  statements f()
CallForms == {"main", "backward", "forward", "recursive"}
CallsInputs == [kind : {"calls"}, form : CallForms, v : 1..MaxLit]
Proc(name, statements) ==
  FuncDeclNode(name, <<>>, NoneNode, BlockNode(<<>>, <<>>, statements))
CallProc(name) == CallStmtNode(CallNode(name, <<>>))
CallsProgram(i) ==
  LET a == IdentifierNode("a")
      g == Proc("g", <<Vyvod(Num(i.v))>>)
      f == Proc("f", <<CallProc("g")>>)
      r == Proc("f", <<Vyvod(Num(i.v)),
                       IfNode(BinOpNode(a, "<", Num(1)), <<Incr("a"), CallProc("f")>>, <<>>)>>)
      block(func_decls, name) ==
        ProgramNode("p", BlockNode(<<VarInt("a")>>, func_decls, <<CallProc(name)>>))
  IN CASE i.form = "main" -> block(<<g>>, "g")
       [] i.form = "backward" -> block(<<g, f>>, "f")
       [] i.form = "forward" -> block(<<f, g>>, "f")
       [] OTHER -> block(<<r>>, "f")

\* vyvod(1); vyvod(e) for an expression e that holds the division d = 1 op 0:
\*   "alone" d;  "mul_right" d * 0;  "mul_left" 0 * d;  "add_zero" d + 0;
\*   "mul_one" d * 1;  "sum" d + 1
FoldZeroForms == {"alone", "mul_right", "mul_left", "add_zero", "mul_one", "sum"}
FoldZeroInputs == [kind : {"foldzero"}, form : FoldZeroForms, op : DivModOps]
FoldZeroExpr(i) ==
  LET d == BinOpNode(Num(1), i.op, Num(0))
  IN CASE i.form = "alone" -> d
       [] i.form = "mul_right" -> BinOpNode(d, "*", Num(0))
       [] i.form = "mul_left" -> BinOpNode(Num(0), "*", d)
       [] i.form = "add_zero" -> BinOpNode(d, "+", Num(0))
       [] i.form = "mul_one" -> BinOpNode(d, "*", Num(1))
       [] OTHER -> BinOpNode(d, "+", Num(1))
FoldZeroProgram(i) ==
  Main(<<VarInt("a")>>, <<Vyvod(Num(1)), Vyvod(FoldZeroExpr(i))>>)

\* p := a op b for Boolean literals a, b and op "i" (and) or "ili" (or);
\* p := ne a for op "ne" (not)
FoldLogInputs == [kind : {"foldlog"}, op : {"i", "ili", "ne"}, a : BOOLEAN, b : BOOLEAN]
FoldLogProgram(i) ==
  Main(<<VarBool("p")>>,
       <<AssignNode(IdentifierNode("p"),
                    IF i.op = "ne" THEN UnaryOpNode("ne", BoolLiteralNode(BoolV(i.a)))
                    ELSE BinOpNode(BoolLiteralNode(BoolV(i.a)), i.op,
                                   BoolLiteralNode(BoolV(i.b))))>>)

\* Programs that leave a call in every way, over the program variable a
\* (a := v first, vyvod(a) last):
\*   "call_normal"    proc p: vyvod(0);             p()
\*   "call_return"    func f(x): return x + 1;      vyvod(f(1))
\*   "call_error"     func g: return a;             vyvod(g())
\*   "call_break"     proc p: break;     for w from 0 to 1 do (vyvod(w); p(); vyvod(9))
\*   "call_continue"  proc p: continue;  the same loop
FrameForms == {"call_normal", "call_return", "call_error", "call_break", "call_continue"}
FrameInputs == [kind : {"frames"}, form : FrameForms, v : 1..MaxLit]
FrameProgram(i) ==
  LET a == IdentifierNode("a")
      x == IdentifierNode("x")
      loop == ForNode("w", Num(0), Num(1), NoneNode,
                      <<Vyvod(IdentifierNode("w")), CallProc("p"), Vyvod(Num(9))>>)
      block(func_decls, statement) ==
        ProgramNode("p", BlockNode(<<VarInt("a"), VarInt("w")>>, func_decls,
                                   <<AssignNode(a, Num(i.v)), statement, Vyvod(a)>>))
  IN CASE i.form = "call_normal" -> block(<<Proc("p", <<Vyvod(Num(0))>>)>>, CallProc("p"))
       [] i.form = "call_return" ->
            block(<<IntFunc("f", <<IntParam("x")>>, <<ReturnNode(BinOpNode(x, "+", Num(1)))>>)>>,
                  Vyvod(Call1("f", Num(1))))
       [] i.form = "call_error" ->
            block(<<IntFunc("g", <<>>, <<ReturnNode(a)>>)>>, Vyvod(CallNode("g", <<>>)))
       [] i.form = "call_break" -> block(<<Proc("p", <<BreakNode>>)>>, loop)
       [] OTHER -> block(<<Proc("p", <<ContinueNode>>)>>, loop)

\* A bytecode file with an array: the generator cannot write the
\* declaration of an array (add_constant), so the file declares the array t
\* = [10, 20, ...] as global 0 by hand, and the statements that follow are
\* the generator's: vyvod(t[i]) (form "load") or t[i] := v (form "store").
Cells(n) == ListV([k \in 1..n |-> IntV(10 * k)])
FileInputs ==
  [kind : {"file"}, form : {"load"}, n : 1..MaxArr, i : -1..(MaxArr + 1), v : {1}]
  \cup [kind : {"file"}, form : {"store", "poke"}, n : 1..MaxArr,
        i : -1..(MaxArr + 1), v : 1..MaxLit]
  \cup [kind : {"file"}, form : {"call"}, n : 1..MaxArr, i : {0}, v : 1..MaxLit]

\* The file of form "poke" is written by hand in the order STORE_ARRAY
\* pops its operands (vm_core.py): it prints slot i of the constant array
\* and then stores v into slot i, array first, index next, value on top.
PokeProgram(i) ==
  VMProgram(<<Cells(i.n)>>,
            <<VMInstruction("PUSH_CONST", IntV(0)),
              VMInstruction("PUSH_INT", IntV(i.i)),
              VMInstruction("LOAD_ARRAY", NoneV),
              VMInstruction("PRINT", NoneV),
              VMInstruction("PUSH_CONST", IntV(0)),
              VMInstruction("PUSH_INT", IntV(i.i)),
              VMInstruction("PUSH_INT", IntV(i.v)),
              VMInstruction("STORE_ARRAY", NoneV),
              VMInstruction("HALT", NoneV)>>,
            1)

GeneratedFile(i) ==
  LET declared ==
        [GenStart EXCEPT
           !.constants = <<Cells(i.n)>>,
           !.instructions = <<VMInstruction("PUSH_CONST", IntV(0)),
                              VMInstruction("STORE_GLOBAL", IntV(0))>>,
           !.global_vars = Define(EmptyFrame, "t", 0),
           !.globals_count = 1]
      access == ArrayAccessNode(IdentifierNode("t"), Num(i.i))
      stmts == IF i.form = "load" THEN <<Vyvod(access)>>
               ELSE <<AssignNode(access, Num(i.v))>>
      G == resolve_labels(emit(gen_statements(stmts, declared), "HALT", NoneV))
  IN VMProgram(G.constants, G.instructions, G.globals_count)

\* The file of form "call" is written by hand: it pushes the n arguments
\* v, v + 1, ..., calls the function at address n + 3 with n locals, and
\* prints what the call left; the function returns its first local.
CallArgs(i) == [k \in 1..i.n |-> IntV(i.v + k - 1)]
CallProgram(i) ==
  VMProgram(<<>>,
            [k \in 1..i.n |-> VMInstruction("PUSH_INT", CallArgs(i)[k])]
            \o <<VMInstruction("CALL", TupleV(<<IntV(i.n + 3), IntV(i.n)>>)),
                 VMInstruction("PRINT", NoneV),
                 VMInstruction("HALT", NoneV),
                 VMInstruction("LOAD_LOCAL", IntV(0)),
                 VMInstruction("RETURN", NoneV)>>,
            0)

FileProgram(i) ==
  CASE i.form = "poke" -> PokeProgram(i)
    [] i.form = "call" -> CallProgram(i)
    [] OTHER -> GeneratedFile(i)

\* A client of the generator that calls create_label, mark_label and
\* emit_jump itself, at most MaxJumps jumps over the labels LabelNames, and
\* then ends the generation as generate does (HALT, resolve_labels).
MaxJumps == 2
LabelNames == {"a", "b"}
JumpOps == {"JMP", "JMP_IF_FALSE"}
LabelInputs == [kind : {"labels"}]

\* A session on a ScopeManager: enter_scope, exit_scope, declare and
\* resolve in any order, at most MaxScopes scopes deep.  vyvod is the name
\* of a builtin, in the global scope from the start.
MaxScopes == 3
ScopeNames == {"x", "vyvod"}
ScopeTypes == {INTEGER_T, BOOLEAN_T}
ScopeInputs == [kind : {"scopes"}]
\* create_scope_manager_with_builtins(); op, name, symbol and raised are
\* the last call on the manager, its arguments, and what it gave
ScopeManagerStart ==
  [scope_stack |-> AnalyzerStart.scope_stack, op |-> "new", name |-> "",
   symbol |-> NoType, raised |-> FALSE]
Manager(m) == [AnalyzerStart EXCEPT !.scope_stack = m.scope_stack]
Called(A, op, name, symbol) ==
  [scope_stack |-> A.scope_stack, op |-> op, name |-> name, symbol |-> symbol,
   raised |-> A.errors # <<>>]

Inputs ==
  ExprInputs \cup LogicInputs \cup ArrayInputs \cup ForInputs \cup For2Inputs
  \cup IfInputs \cup FileInputs \cup DoWhileInputs \cup FuncInputs
  \cup DivInputs \cup DivZeroInputs \cup PrintInputs \cup If2Inputs
  \cup Loop2Inputs \cup LabelInputs \cup BrkInputs
  \cup ForOnceInputs \cup CallsInputs \cup FoldZeroInputs
  \cup FoldLogInputs \cup ScopeInputs \cup FrameInputs

SourceOf(i) ==
  CASE i.kind = "expr" -> ExprProgram(i)
    [] i.kind = "logic" -> LogicProgram(i)
    [] i.kind = "array" -> ArrayProgram(i)
    [] i.kind = "for" -> ForProgram(i)
    [] i.kind = "for2" -> For2Program(i)
    [] i.kind = "if" -> IfProgram(i)
    [] i.kind = "dowhile" -> DoWhileProgram(i)
    [] i.kind = "func" -> FuncProgram(i)
    [] i.kind = "div" -> ExprProgram(i)
    [] i.kind = "divzero" -> DivZeroProgram(i)
    [] i.kind = "print" -> PrintProgram(i)
    [] i.kind = "if2" -> If2Program(i)
    [] i.kind = "loop2" -> Loop2Program(i)
    [] i.kind = "brk" -> BrkProgram(i)
    [] i.kind = "foronce" -> ForOnceProgram(i)
    [] i.kind = "calls" -> CallsProgram(i)
    [] i.kind = "foldzero" -> FoldZeroProgram(i)
    [] i.kind = "foldlog" -> FoldLogProgram(i)
    [] i.kind = "frames" -> FrameProgram(i)
    [] OTHER -> NoneNode


(***************************************************************************)
(* The session.  main.py: cmd_run interprets the source (with the constant *)
(* folder first under -O); cmd_compile compiles it, optimizes the          *)
(* bytecode, saves it and runs it; cmd_vm loads a bytecode file and runs   *)
(* it.  The run of the VM is taken one instruction at a time; the runs of  *)
(* the optimized and of the restored program are taken whole.              *)
(***************************************************************************)
VARIABLES inp, ast, file, pc, interp, folded, finterp, cstatus, program, vm,
          nsteps, optimized, ovm, restored, rvm, gen, sm

vars == <<inp, ast, file, pc, interp, folded, finterp, cstatus, program, vm,
          nsteps, optimized, ovm, restored, rvm, gen, sm>>

NoProgram == VMProgram(<<>>, <<>>, 0)
NoResult == [status |-> "none", out |-> <<>>, last |-> EmptyFrame,
             env |-> InterpStart.env]
NoRun == [status |-> "none", out |-> <<>>, globals |-> <<>>, stack |-> <<>>]

Init ==
  \E i \in Inputs :
    /\ inp = i
    /\ ast = SourceOf(i)
    /\ file = IF i.kind = "file" THEN to_dict(FileProgram(i)) ELSE to_dict(NoProgram)
    /\ pc = CASE i.kind = "file" -> "file"
              [] i.kind = "labels" -> "generating"
              [] i.kind = "scopes" -> "scoping"
              [] OTHER -> "source"
    /\ interp = NoResult
    /\ folded = NoneNode
    /\ finterp = NoResult
    /\ cstatus = "none"
    /\ program = NoProgram
    /\ vm = VMStart(NoProgram)
    /\ nsteps = 0
    /\ optimized = NoProgram
    /\ ovm = NoRun
    /\ restored = NoProgram
    /\ rvm = NoRun
    /\ gen = GenStart
    /\ sm = ScopeManagerStart

\* cmd_run: run_program(ast)
Interpret ==
  /\ pc = "source"
  /\ interp' = interpret(ast)
  /\ pc' = "interpreted"
  /\ UNCHANGED <<sm, gen, inp, ast, file, folded, finterp, cstatus, program, vm, nsteps,
                 optimized, ovm, restored, rvm>>

\* cmd_run with -O: optimize_ast(ast), then run_program on the result
RunOptimized ==
  /\ pc = "interpreted"
  /\ folded' = optimize_ast(ast)
  /\ finterp' = interpret(folded')
  /\ pc' = "folded"
  /\ UNCHANGED <<sm, gen, inp, ast, file, interp, cstatus, program, vm, nsteps,
                 optimized, ovm, restored, rvm>>

\* cmd_compile: compile_to_vm(ast); an exception ends the command
Compile ==
  /\ pc = "folded"
  /\ With(compile_to_vm(ast), LAMBDA c :
        /\ cstatus' = c.status
        /\ program' = c.program
        /\ pc' = IF c.status = "ok" THEN "compiled" ELSE "done")
  /\ gen' = GeneratorOf(ast)
  /\ UNCHANGED <<sm, inp, ast, file, interp, folded, finterp, vm, nsteps,
                 optimized, ovm, restored, rvm>>

\* cmd_vm: VMProgram.load_from_file
LoadFile ==
  /\ pc = "file"
  /\ program' = from_dict(file)
  /\ cstatus' = "loaded"
  /\ pc' = "compiled"
  /\ UNCHANGED <<sm, gen, inp, ast, file, interp, folded, finterp, vm, nsteps,
                 optimized, ovm, restored, rvm>>

\* VirtualMachine.run: reset()
Reset ==
  /\ pc = "compiled"
  /\ vm' = VMStart(program)
  /\ nsteps' = 0
  /\ pc' = "running"
  /\ UNCHANGED <<sm, gen, inp, ast, file, interp, folded, finterp, cstatus, program,
                 optimized, ovm, restored, rvm>>

\* VirtualMachine.run: one turn of the loop, step().  The constants of the
\* program are the objects the machine works on: a STORE_ARRAY changes the
\* list inside program.constants.
Step ==
  /\ pc = "running"
  /\ VMRunning(vm, program)
  /\ nsteps < MaxSteps
  /\ vm' = vm_step(vm, program)
  /\ program' = [program EXCEPT !.constants = vm'.constants]
  /\ nsteps' = nsteps + 1
  /\ UNCHANGED <<sm, gen, inp, ast, file, pc, interp, folded, finterp, cstatus,
                 optimized, ovm, restored, rvm>>

\* VirtualMachine.run: the loop is over and the output is returned (a run
\* of MaxSteps instructions is cut short)
Finish ==
  /\ pc = "running"
  /\ ~VMRunning(vm, program) \/ nsteps = MaxSteps
  /\ vm' = IF VMRunning(vm, program) THEN VMRaise(vm, "fuel") ELSE vm
  /\ pc' = "ran"
  /\ UNCHANGED <<sm, gen, inp, ast, file, interp, folded, finterp, cstatus, program,
                 nsteps, optimized, ovm, restored, rvm>>

\* cmd_compile with -O: optimize_bytecode(program), then the run
OptimizeBytecode ==
  /\ pc = "ran"
  /\ optimized' = optimize_bytecode(program)
  /\ ovm' = run_vm_program(optimized')
  /\ pc' = "optimized"
  /\ UNCHANGED <<sm, gen, inp, ast, file, interp, folded, finterp, cstatus, program, vm,
                 nsteps, restored, rvm>>

\* VMProgram.to_dict
Serialize ==
  /\ pc = "optimized"
  /\ file' = to_dict(program)
  /\ pc' = "saved"
  /\ UNCHANGED <<sm, gen, inp, ast, interp, folded, finterp, cstatus, program, vm,
                 nsteps, optimized, ovm, restored, rvm>>

\* VMProgram.from_dict on the dictionary, then the run of the result
Restore ==
  /\ pc = "saved"
  /\ restored' = from_dict(file)
  /\ rvm' = run_vm_program(restored')
  /\ pc' = "done"
  /\ UNCHANGED <<sm, gen, inp, ast, file, interp, folded, finterp, cstatus, program, vm,
                 nsteps, optimized, ovm>>

\* VMCodeGenerator.create_label(name)
CreateLabel ==
  /\ pc = "generating"
  /\ \E name \in LabelNames : gen' = create_label(gen, name)
  /\ UNCHANGED <<sm, inp, ast, file, pc, interp, folded, finterp, cstatus, program,
                 vm, nsteps, optimized, ovm, restored, rvm>>

\* VMCodeGenerator.mark_label(label), label a Label create_label returned
MarkLabel ==
  /\ pc = "generating"
  /\ \E name \in DOMAIN gen.labels : gen' = mark_label(gen, name)
  /\ UNCHANGED <<sm, inp, ast, file, pc, interp, folded, finterp, cstatus, program,
                 vm, nsteps, optimized, ovm, restored, rvm>>

\* VMCodeGenerator.emit_jump(opcode, label)
EmitJump ==
  /\ pc = "generating"
  /\ Len(gen.instructions) < MaxJumps
  /\ \E name \in DOMAIN gen.labels, opcode \in JumpOps :
       gen' = emit_jump(gen, opcode, name)
  /\ UNCHANGED <<sm, inp, ast, file, pc, interp, folded, finterp, cstatus, program,
                 vm, nsteps, optimized, ovm, restored, rvm>>

\* the end of generate: emit(HALT), resolve_labels, and the VMProgram or
\* the exception
ResolveLabels ==
  /\ pc = "generating"
  /\ gen' = resolve_labels(emit(gen, "HALT", NoneV))
  /\ cstatus' = IF gen'.err # "" THEN gen'.err ELSE "ok"
  /\ program' = IF gen'.err # "" THEN NoProgram
                ELSE VMProgram(gen'.constants, gen'.instructions, gen'.globals_count)
  /\ pc' = "generated"
  /\ UNCHANGED <<sm, inp, ast, file, interp, folded, finterp, vm, nsteps,
                 optimized, ovm, restored, rvm>>

\* ScopeManager.enter_scope()
EnterScope ==
  /\ pc = "scoping"
  /\ Len(sm.scope_stack) < MaxScopes
  /\ sm' = Called(enter_scope(Manager(sm)), "enter_scope", "", NoType)
  /\ UNCHANGED <<gen, inp, ast, file, pc, interp, folded, finterp, cstatus, program,
                 vm, nsteps, optimized, ovm, restored, rvm>>

\* ScopeManager.exit_scope()
ExitScope ==
  /\ pc = "scoping"
  /\ sm' = Called(exit_scope(Manager(sm)), "exit_scope", "", NoType)
  /\ UNCHANGED <<gen, inp, ast, file, pc, interp, folded, finterp, cstatus, program,
                 vm, nsteps, optimized, ovm, restored, rvm>>

\* ScopeManager.declare(name, symbol)
DeclareSymbol ==
  /\ pc = "scoping"
  /\ \E name \in ScopeNames, symbol \in ScopeTypes :
       sm' = Called(ScopeDeclare(Manager(sm), name, symbol), "declare", name, symbol)
  /\ UNCHANGED <<gen, inp, ast, file, pc, interp, folded, finterp, cstatus, program,
                 vm, nsteps, optimized, ovm, restored, rvm>>

\* ScopeManager.resolve(name): the symbol, or a SemanticError
ResolveSymbol ==
  /\ pc = "scoping"
  /\ \E name \in ScopeNames \cup {"y"} :
       sm' = [Called(Manager(sm), "resolve", name, ScopeLookup(Manager(sm), name))
                EXCEPT !.raised = ScopeLookup(Manager(sm), name) = NoType]
  /\ UNCHANGED <<gen, inp, ast, file, pc, interp, folded, finterp, cstatus, program,
                 vm, nsteps, optimized, ovm, restored, rvm>>

Next ==
  \/ Interpret
  \/ RunOptimized
  \/ Compile
  \/ LoadFile
  \/ Reset
  \/ Step
  \/ Finish
  \/ OptimizeBytecode
  \/ Serialize
  \/ Restore
  \/ CreateLabel
  \/ MarkLabel
  \/ EmitJump
  \/ ResolveLabels
  \/ EnterScope
  \/ ExitScope
  \/ DeclareSymbol
  \/ ResolveSymbol

Spec == Init /\ [][Next]_vars

TypeOK ==
  /\ pc \in {"source", "interpreted", "folded", "file", "compiled", "running",
             "ran", "optimized", "saved", "done", "generating", "generated",
             "scoping"}
  /\ nsteps \in 0..MaxSteps




(***************************************************************************)
(* Properties.                                                             *)
(***************************************************************************)
Accepted == inp.kind \notin {"file", "labels", "scopes"} /\ interp.status # "SemanticErrors"
VMRan == pc \in {"ran", "optimized", "saved", "done"} /\ cstatus \in {"ok", "loaded"}
Line(n) == ToString(n) \o "\n"

\* C1: for every program the analysis accepts, the output lines of the
\* interpreter are equal, one by one, to the output lines of the VM run of
\* the program compile_to_vm produced.
C1_InterpreterAndVMOutputsEqual ==
  (Accepted /\ VMRan) => vm.output = interp.out

\* C2: for every program whose evaluation does not divide by zero, the
\* folded AST passes the analysis whenever the unfolded AST does, and
\* running it gives the same output lines and the same end.
C2_FoldingKeepsResult ==
  (pc \notin {"source", "interpreted"} /\ Accepted /\ interp.status # "DivZero")
    => /\ finterp.status # "SemanticErrors"
       /\ finterp.out = interp.out
       /\ finterp.status = interp.status

\* C3: for every program of the code generator, the peephole-optimized
\* program run on the VM gives the same output lines and ends in the same
\* way as the program itself.
C3_PeepholeKeepsRun ==
  (pc \in {"optimized", "saved", "done"} /\ cstatus = "ok")
    => /\ ovm.out = vm.output
       /\ ovm.status = VMResult(vm).status

\* C4: for every VMProgram p, from_dict(to_dict(p)) has the constants, the
\* instructions and the globals_count of p, and the run of the restored
\* program gives the output of the run of p.
C4_RoundTrip ==
  (pc = "done" /\ cstatus \in {"ok", "loaded"})
    => /\ restored.constants = program.constants
       /\ restored.code = program.code
       /\ restored.globals_count = program.globals_count
       /\ rvm.out = vm.output




\* The value of  a op (1 / z = 1)  read off the source language: the right
\* operand is evaluated when a is true (and) or false (or), it fails for
\* z = 0, and it is true for z = 1 only.
Shorted(a, op, z) ==
  LET evaluates_right == IF op = "i" THEN a ELSE ~a
  IN IF ~evaluates_right THEN [fails |-> FALSE, value |-> a]
     ELSE IF z = 0 THEN [fails |-> TRUE, value |-> FALSE]
     ELSE [fails |-> FALSE, value |-> (z = 1)]

\* the variables p and q the program of a "logic" input must end with,
\* and the end of its run
LogicExpected(i) ==
  LET first == Shorted(i.a1, i.op1, i.z1)
      second == Shorted(i.a2, i.op2, 1)
  IN [status |-> IF first.fails THEN "DivZero" ELSE "ok",
      p |-> BoolV(~first.fails /\ first.value),
      q |-> BoolV(~first.fails /\ i.count = 2 /\ second.value)]

\* C5: in the interpreter and in the compiled code, for a program with one
\* or with two and/or expressions, a and b evaluates b exactly when a is
\* true, a or b evaluates b exactly when a is false, and the expression
\* leaves exactly its logical value (the operand stack of the VM is as deep
\* after the assignment as before the expression).
C5_ShortCircuit ==
  (inp.kind = "logic" /\ VMRan)
    => LET want == LogicExpected(inp)
       IN /\ interp.status = want.status
          /\ interp.last.p = want.p
          /\ interp.last.q = want.q
          /\ VMResult(vm).status = want.status
          /\ vm.globals = <<want.p, want.q>>
          /\ vm.stack = <<>>

\* C6: in the interpreter, t[i] := v and the read of t[j] on an array of n
\* elements succeed exactly when the index is in 1..n and work on storage
\* slot index - 1 (element index of the sequence, which counts from 1); an
\* index outside 1..n ends the run with an error, leaves the array as it
\* was and adds no output line.
ArrayAfter(i) ==
  ListV([k \in 1..i.n |-> IF k = i.i THEN IntV(i.v) ELSE IntV(0)])
C6_InterpreterArrayBounds ==
  (inp.kind = "array" /\ pc # "source")
    => /\ interp.last.t = ArrayAfter(inp)
       /\ IF inp.i \in 1..inp.n /\ inp.j \in 1..inp.n
          THEN /\ interp.status = "ok"
               /\ interp.out = <<Line(IF inp.j = inp.i THEN inp.v ELSE 0), Line(7)>>
          ELSE /\ interp.status = "IndexOutOfBounds"
               /\ interp.out = <<>>

\* an array of MaxArr elements took a store at its last index, and the
\* read one past it ended the run
C6_Witness ==
  /\ inp.kind = "array" /\ pc = "interpreted"
  /\ inp.n = MaxArr /\ inp.i = MaxArr /\ inp.j = MaxArr + 1
  /\ interp.status = "IndexOutOfBounds"
  /\ interp.last.t.items[MaxArr] = IntV(inp.v)


\* C7: in compiled code run on the VM, the read of t[i] on an array of n
\* elements yields the element of storage slot i - 1 exactly when i is in
\* 1..n, and ends the run with an error for the other indices: a source
\* program with an array compiles, and the generator's code for vyvod(t[i])
\* prints element i of the array 10, 20, ... or fails.
C7_VMArrayRead ==
  /\ (inp.kind = "array" /\ pc = "done" /\ Accepted) => cstatus = "ok"
  /\ (inp.kind = "file" /\ inp.form = "load" /\ VMRan)
       => IF inp.i \in 1..inp.n
          THEN vm.error = "" /\ vm.output = <<Line(10 * inp.i)>>
          ELSE vm.error # "" /\ vm.output = <<>>

\* C8: in compiled code run on the VM, t[i] := v with i in 1..n stores v
\* into element i and changes no other element: a source program with an
\* array compiles, and the generator's code for the assignment leaves the
\* array 10, 20, ... with v at element i.
C8_VMArrayStore ==
  /\ (inp.kind = "array" /\ pc = "done" /\ Accepted) => cstatus \in {"ok"}
  /\ (inp.kind = "file" /\ inp.form = "store" /\ VMRan /\ inp.i \in 1..inp.n)
       => /\ vm.error = ""
          /\ program.constants[1] =
               ListV([k \in 1..inp.n |-> IF k = inp.i THEN IntV(inp.v) ELSE IntV(10 * k)])

\* the values of v for which the body of  for v from s to e step k  runs
RECURSIVE ForValues(_, _, _)
ForValues(v, e, k) ==
  IF (k > 0 /\ v <= e) \/ (k < 0 /\ v >= e)
  THEN <<v>> \o ForValues(v + k, e, k)
  ELSE <<>>
Lines(values) == [x \in 1..Len(values) |-> Line(values[x])]

\* C9: in the interpreter and in the compiled code, the body of a for-loop
\* runs while v <= e when the step is positive and while v >= e when it is
\* negative, the step being 1 when there is none.
C9_ForDirection ==
  (inp.kind = "for" /\ VMRan)
    => LET want == Lines(ForValues(inp.s, inp.e, inp.step))
       IN /\ interp.status = "ok" /\ interp.out = want
          /\ vm.error = "" /\ vm.output = want

\* C10: in the interpreter and in the compiled code, for v from s to e
\* with s > e and no step runs its body no time and leaves v = s: alone in
\* the program, or after another for-loop whose body runs for 1..f.
C10_EmptyFor ==
  /\ (inp.kind = "for" /\ ~inp.has_step /\ inp.s > inp.e /\ VMRan)
       => /\ interp.status = "ok" /\ interp.out = <<>>
          /\ interp.last.v = IntV(inp.s)
          /\ vm.error = "" /\ vm.output = <<>>
          /\ vm.globals = <<IntV(inp.s)>>
  /\ (inp.kind = "for2" /\ inp.s > inp.e /\ VMRan)
       => LET first == Lines(ForValues(1, inp.f, 1))
          IN /\ interp.status = "ok" /\ interp.out = first
             /\ interp.last.w = IntV(inp.s)
             /\ vm.error = "" /\ vm.output = first
             /\ vm.globals[2] = IntV(inp.s)

\* the values of a for which the body of  do ... a := a + 1 until a > e  runs
RECURSIVE DoWhileValues(_, _)
DoWhileValues(a, e) ==
  IF a + 1 > e THEN <<a>> ELSE <<a>> \o DoWhileValues(a + 1, e)

\* C11: in the interpreter and in the compiled code, the loop  do body until
\* cond  runs its body once and then again as long as cond is false: it
\* stops the first time cond is true after a run of the body.
C11_DoWhileUntilTrue ==
  (inp.kind = "dowhile" /\ VMRan)
    => LET want == Lines(DoWhileValues(inp.s, inp.e))
       IN /\ interp.status = "ok" /\ interp.out = want
          /\ vm.error = "" /\ vm.output = want

\* C12: on the VM, Call for a function with n parameters takes the n
\* arguments off the operand stack into the locals 0..n-1 of a new frame
\* of nlocals >= n locals, records the return address and goes to the
\* function; Return drops the frame, goes to the instruction after the Call
\* and leaves the value the function returned on top of the stack.
C12_CallAndReturn ==
  (inp.kind = "file" /\ inp.form = "call")
    => /\ (pc = "running" /\ vm.ip = inp.n + 3)
            => /\ vm.stack = <<>>
               /\ Len(vm.call_stack) = 1
               /\ vm.call_stack[1].locals = CallArgs(inp)
               /\ vm.call_stack[1].return_address = inp.n + 1
       /\ (pc = "running" /\ vm.ip = inp.n + 1)
            => vm.call_stack = <<>> /\ vm.stack = <<IntV(inp.v)>>
       /\ VMRan => vm.error = "" /\ vm.output = <<Line(inp.v)>>

\* C13: for every program the analysis accepts, the interpreter never ends
\* with the error of an undefined variable: the body of a function reads
\* and assigns the variables of the program, and the arguments of a call
\* may name the caller's variables and parameters.
C13_NoUndefinedVariable ==
  (pc # "source" /\ Accepted) => interp.status # "UndefinedVariable"

\* the quotient of a by b truncated toward zero
TruncDiv(a, b) ==
  IF (a < 0) = (b < 0) THEN PyAbs(a) \div PyAbs(b) ELSE -(PyAbs(a) \div PyAbs(b))

\* C14: for all integers a and b # 0 of either sign, a / b and a div b are
\* the quotient of a by b truncated toward zero, in the interpreter, on the
\* VM and in the constant folder.
C14_DivisionTruncates ==
  (inp.kind = "div" /\ VMRan)
    => LET want == <<Line(TruncDiv(inp.x, inp.y))>>
       IN /\ interp.out = want
          /\ finterp.out = want
          /\ vm.output = want

\* C15: in the interpreter and on the VM, x / 0, x div 0 and x mod 0 end
\* the run with the error of a division by zero: the operation leaves no
\* value, and the output holds the lines printed before it and no other.
C15_DivisionByZeroStops ==
  /\ (inp.kind = "divzero" /\ VMRan)
       => /\ interp.status = "DivZero" /\ interp.out = <<Line(1)>>
          /\ vm.error = "DivZero" /\ vm.output = <<Line(1)>>
          /\ vm.stack = <<>>
  /\ (inp.kind = "expr" /\ inp.op \in DivModOps /\ inp.y = 0 /\ VMRan)
       => /\ interp.status = "DivZero" /\ interp.out = <<>>
          /\ vm.error = "DivZero" /\ vm.output = <<>>
          /\ vm.stack = <<>>

\* a mod 0 on a variable ended both runs after the first line
C15_Witness ==
  /\ inp.kind = "divzero" /\ inp.form = "var" /\ inp.op = "mod" /\ inp.x = MaxLit
  /\ VMRan
  /\ interp.status = "DivZero" /\ interp.out = <<Line(1)>>
  /\ vm.error = "DivZero" /\ vm.output = <<Line(1)>>

\* the source-language word of a Boolean ("da" for true, "net" for false)
\* and a newline
Word(b) == (IF b THEN "da" ELSE "net") \o "\n"

\* C16: in the interpreter and on the VM, vyvod of a Boolean appends the
\* source-language word of the value and a newline, and vyvod of an integer
\* appends its decimal form and a newline.
C16_PrintFormat ==
  (inp.kind = "print" /\ VMRan)
    => LET want == IF inp.form = "int" THEN <<Line(inp.x)>> ELSE <<Word(inp.b)>>
       IN interp.out = want /\ vm.output = want

\* the places (indices from 1) of the instructions of an opcode, in order
Places(code, opcode) ==
  SelectSeq([k \in 1..Len(code) |-> k], LAMBDA k : code[k].opcode = opcode)
\* the number of instructions of the statement vyvod(n)
VyvodLen == Len(gen_statement(Vyvod(Num(1)), GenStart).instructions)
Compiled == pc \in {"compiled", "running", "ran", "optimized", "saved", "done"}
                /\ cstatus = "ok"

\* C17: in the code generated for two if statements, one after or inside
\* the other, each if has its own labels: its JMP_IF_FALSE goes to the first
\* instruction of its own else part (the instruction after its own JMP),
\* and the JMP after its then part goes to the instruction right after the
\* same if (after its else part, one vyvod long).  The k-th JMP_IF_FALSE
\* is that of the k-th if; of two ifs in sequence the k-th JMP is the k-th
\* if's, of two nested ifs the first JMP is the inner if's.
C17_IfLabels ==
  (inp.kind = "if2" /\ Compiled)
    => LET jif == Places(program.code, "JMP_IF_FALSE")
           jmp == Places(program.code, "JMP")
           own(k) == IF inp.shape = "seq" THEN jmp[k] ELSE jmp[3 - k]
       IN /\ Len(jif) = 2 /\ Len(jmp) = 2
          /\ \A k \in 1..2 :
               /\ program.code[jif[k]].arg = IntV(own(k))
               /\ program.code[own(k)].arg = IntV(own(k) + VyvodLen)

\* the number of instructions of the test of a loop, before its
\* JMP_IF_FALSE: the variable, the bound, the comparison
TestLen ==
  Len(gen_expression(BinOpNode(Num(1), "<", Num(1)), GenStart).instructions)

\* C18: in the code generated for two loops (two for-loops or two
\* while-loops one after the other, or a for-loop in a for-loop), the
\* back-edge JMP of each loop goes to the start of the same loop (the first
\* instruction of its test) and its exit JMP_IF_FALSE goes to the
\* instruction right after the same loop (after its JMP).  The k-th
\* JMP_IF_FALSE is that of the k-th loop; of two loops in sequence the k-th
\* JMP is the k-th loop's, of two nested loops the first JMP is the inner
\* loop's.
C18_LoopLabels ==
  (inp.kind \in {"for2", "loop2"} /\ Compiled)
    => LET jif == Places(program.code, "JMP_IF_FALSE")
           jmp == Places(program.code, "JMP")
           nested == inp.kind = "loop2" /\ inp.shape = "for_nest"
           own(k) == IF nested THEN jmp[3 - k] ELSE jmp[k]
       IN /\ Len(jif) = 2 /\ Len(jmp) = 2
          /\ \A k \in 1..2 :
               /\ program.code[own(k)].arg = IntV(jif[k] - 1 - TestLen)
               /\ program.code[jif[k]].arg = IntV(own(k))

JumpOpCodes == {"JMP", "JMP_IF_FALSE", "JMP_IF_TRUE"}
Generated ==
  /\ inp.kind # "file"
  /\ pc \in {"compiled", "running", "ran", "optimized", "saved", "done", "generated"}

RECURSIVE PlaceOf(_, _, _, _)
PlaceOf(code, i, placed, t) ==
  IF i >= t \/ i >= Len(code) THEN placed
  ELSE PlaceOf(code, i + PeepholeAt(code, i).used,
               placed + Len(PeepholeAt(code, i).out), t)

\* C20: in the program PeepholeOptimizer.optimize returns for generated
\* code, the argument of every JMP, JMP_IF_FALSE and JMP_IF_TRUE is an
\* index of the optimized code, and it is the place of the instruction the
\* jump went to in the input program.
C20_PeepholeJumpTargets ==
  (pc \in {"optimized", "saved", "done"} /\ cstatus = "ok")
    => /\ \A a \in 1..Len(optimized.code) :
            optimized.code[a].opcode \in JumpOpCodes
              => optimized.code[a].arg.n \in 0..(Len(optimized.code) - 1)
       /\ \A a \in 0..(Len(program.code) - 1) :
            (/\ program.code[a + 1].opcode \in JumpOpCodes
             /\ PeepholeAt(program.code, a).out = <<program.code[a + 1]>>)
              => optimized.code[PlaceOf(program.code, 0, 0, a) + 1].arg
                   = IntV(PlaceOf(program.code, 0, 0, program.code[a + 1].arg.n))

\* the number of instructions of the statement x := x + 1
IncrLen == Len(gen_statement(Incr("a"), gen_var_decl(VarInt("a"), TRUE, GenStart)).instructions)
            - Len(gen_var_decl(VarInt("a"), TRUE, GenStart).instructions)
\* the output lines the loop of a break or continue has to give, and those
\* of the whole program
BrkCount(loop) == IF loop = "for" THEN <<0, 1>> ELSE <<1, 2>>
BrkLines(i) == IF i.stmt = "break" THEN <<BrkCount(i.loop)[1]>> ELSE BrkCount(i.loop)
BrkExpected(i) ==
  CASE i.shape = "single" -> BrkLines(i) \o <<7>>
    [] i.shape = "nested" -> BrkLines(i) \o <<7>> \o BrkLines(i) \o <<7>>
    [] OTHER -> BrkLines(i) \o BrkCount(i.loop) \o <<7>>

\* C21: compile_to_vm raises the code-generation error for a break or a
\* continue outside any loop.  For one inside a loop (alone, nested in a
\* for-loop, or followed by a second loop) the JMP it emits goes, for break,
\* to the instruction right after the loop that holds it, and for continue
\* to that loop's step (for), condition (do-until) or start (while); the
\* VM run prints what the loops print when only the innermost loop is left
\* or continued.
C21_BreakContinue ==
  /\ (inp.kind = "brk" /\ inp.shape = "outside" /\ cstatus # "none")
       => cstatus = "OutsideLoop"
  /\ (inp.kind = "brk" /\ inp.shape # "outside" /\ cstatus # "none")
       => /\ cstatus = "ok"
          /\ \A p \in 1..(Len(program.code) - 1) :
               (/\ program.code[p].opcode = "JMP"
                /\ program.code[p + 1] = VMInstruction("PUSH_INT", IntV(9)))
                 => program.code[p].arg =
                      IntV(CASE inp.stmt = "break" /\ inp.loop = "for" -> p + VyvodLen + IncrLen + 1
                             [] inp.stmt = "break" /\ inp.loop = "while" -> p + VyvodLen + 1
                             [] inp.stmt = "break" /\ inp.loop = "dowhile" ->
                                  p + VyvodLen + TestLen + 1
                             [] inp.stmt = "continue" /\ inp.loop = "while" ->
                                  p - 1 - VyvodLen - IncrLen - 1 - TestLen
                             [] OTHER -> p + VyvodLen)
  /\ (inp.kind = "brk" /\ inp.shape # "outside" /\ pc = "ran")
       => vm.output = [k \in 1..Len(BrkExpected(inp)) |-> Line(BrkExpected(inp)[k])]

\* the values of a for-loop with step 1 from s to e
RECURSIVE FromTo(_, _)
FromTo(s, e) == IF s > e THEN <<>> ELSE <<s>> \o FromTo(s + 1, e)

\* C22: the end bound and the step of a for-loop are evaluated once, before
\* the first iteration and after the start value is assigned to the loop
\* variable: a body that changes the variable of the bound or of the step
\* runs for 0..e all the same, and the bound v + 1 of a loop from e is
\* e + 1; the interpreter and the VM both print these values.
C22_ForBoundsOnce ==
  LET want == IF inp.form = "var" THEN Lines(FromTo(inp.e, inp.e + 1))
              ELSE Lines(FromTo(0, inp.e))
  IN /\ (inp.kind = "foronce" /\ pc # "source") => interp.out = want
     /\ (inp.kind = "foronce" /\ VMRan) => vm.output = want

\* the number of instructions of the declaration of the program variable
VarLen == Len(gen_var_decl(VarInt("a"), TRUE, GenStart).instructions)

\* C23: in the code of a program with procedures, the address of every
\* CALL is the index of the first instruction of the body of the procedure
\* it calls, for a call from the program, from a procedure declared after
\* the callee, from one declared before the callee, and for a recursive
\* call.  The first body starts after the declaration of a, the second
\* after the first RETURN; the CALLs stand in the order of the code.
C23_CallAddresses ==
  (inp.kind = "calls" /\ Compiled)
    => LET calls == Places(program.code, "CALL")
           first == VarLen
           second == Places(program.code, "RETURN")[1]
           callee == CASE inp.form = "main" -> <<first>>
                       [] inp.form = "backward" -> <<first, second>>
                       [] inp.form = "forward" -> <<second, first>>
                       [] OTHER -> <<first, first>>
       IN /\ Len(calls) = Len(callee)
          /\ \A k \in 1..Len(calls) :
               program.code[calls[k]].arg = TupleV(<<IntV(callee[k]), IntV(0)>>)

\* the expression holds a division or a modulo by the literal 0
RECURSIVE HasDivByZero(_)
HasDivByZero(node) ==
  \/ /\ node.k = "BinOpNode"
     /\ \/ /\ node.op \in DivModOps
           /\ node.right.k = "IntLiteralNode"
           /\ node.right.value = IntV(0)
        \/ HasDivByZero(node.left)
        \/ HasDivByZero(node.right)
  \/ /\ node.k = "UnaryOpNode"
     /\ HasDivByZero(node.operand)

\* C24: the expression optimize_ast returns for an expression that holds a
\* division or a modulo by the literal 0 still holds it, and the folded
\* program stops with the same division-by-zero error, after the same
\* output, as the program itself.
C24_FoldKeepsDivByZero ==
  (inp.kind = "foldzero" /\ pc \notin {"source", "interpreted"})
    => /\ HasDivByZero(folded.block.statements[2].call.args[1])
       /\ interp.status = "DivZero"
       /\ finterp.status = interp.status
       /\ finterp.out = interp.out

\* the value of x op y for integers x, y (y # 0 for a division)
Arith(op, x, y) ==
  CASE op = "+" -> x + y
    [] op = "-" -> x - y
    [] op = "*" -> x * y
    [] op = "mod" -> PyMod(x, y)
    [] OTHER -> PyFloorDiv(x, y)
Compare(op, x, y) ==
  CASE op = "=" -> x = y
    [] op = "<>" -> x # y
    [] op = "<" -> x < y
    [] op = "<=" -> x <= y
    [] op = ">" -> x > y
    [] OTHER -> x >= y

\* C25: optimize_ast replaces an operator on literals by a literal of the
\* kind of the operator's result: a comparison of integer literals, and
\* `and`, `or`, `not` on Boolean literals, by the BoolLiteralNode of the
\* truth value; an arithmetic operator on integer literals (the divisor
\* not 0) by the IntLiteralNode of the integer.
C25_FoldedLiteralKind ==
  /\ (inp.kind = "expr" /\ inp.form = "lit" /\ pc \notin {"source", "interpreted"})
       => LET e == folded.block.statements[1].call.args[1]
          IN IF inp.op \in COMPARISON_OPS
             THEN e = BoolLiteralNode(BoolV(Compare(inp.op, inp.x, inp.y)))
             ELSE (inp.op \in DivModOps /\ inp.y = 0)
                   \/ e = IntLiteralNode(IntV(Arith(inp.op, inp.x, inp.y)))
  /\ (inp.kind = "foldlog" /\ pc \notin {"source", "interpreted"})
       => folded.block.statements[1].value =
            BoolLiteralNode(BoolV(CASE inp.op = "i" -> inp.a /\ inp.b
                                    [] inp.op = "ili" -> inp.a \/ inp.b
                                    [] OTHER -> ~inp.a))

\* the symbol of a name in the innermost scope of the stack that declares
\* it, NoType when no scope does
Visible(scope_stack, name) ==
  LET ks == {k \in 1..Len(scope_stack) : name \in DOMAIN scope_stack[k]}
  IN IF ks = {} THEN NoType
     ELSE scope_stack[CHOOSE k \in ks : \A j \in ks : j <= k][name]

\* C26: every call on a ScopeManager, after any calls before it: declare of
\* a name the current scope holds raises and leaves all scopes as they
\* were; declare of any other name, one of an enclosing scope included,
\* adds it to the current scope alone and the name then resolves to the new
\* symbol; resolve gives the symbol of the innermost scope that declares
\* the name, or raises; exit_scope takes off the current scope and nothing
\* else, so the names resolve as before that scope was entered, and in
\* the global scope it raises and removes nothing.
C26_ScopeManager ==
  [][pc = "scoping" =>
       LET depth == Len(sm.scope_stack)
           top == sm.scope_stack[depth]
       IN /\ (sm'.op = "declare" /\ sm'.name \in DOMAIN top)
               => sm'.raised /\ sm'.scope_stack = sm.scope_stack
          /\ (sm'.op = "declare" /\ sm'.name \notin DOMAIN top)
               => /\ ~sm'.raised
                  /\ sm'.scope_stack =
                       [sm.scope_stack EXCEPT ![depth] = Define(top, sm'.name, sm'.symbol)]
                  /\ Visible(sm'.scope_stack, sm'.name) = sm'.symbol
          /\ sm'.op = "resolve"
               => /\ sm'.scope_stack = sm.scope_stack
                  /\ sm'.symbol = Visible(sm.scope_stack, sm'.name)
                  /\ sm'.raised = (sm'.symbol = NoType)
          /\ (sm'.op = "exit_scope" /\ depth > 1)
               => /\ ~sm'.raised
                  /\ sm'.scope_stack = SubSeq(sm.scope_stack, 1, depth - 1)
          /\ (sm'.op = "exit_scope" /\ depth = 1)
               => sm'.raised /\ sm'.scope_stack = sm.scope_stack
          /\ sm'.op = "enter_scope"
               => sm'.scope_stack = Append(sm.scope_stack, EmptyFrame)
          /\ Len(sm'.scope_stack) >= 1]_vars

\* resolve of x gave the symbol of the inner scope while the global scope
\* holds another symbol for x
C26_Witness ==
  /\ pc = "scoping"
  /\ sm.op = "resolve" /\ sm.name = "x"
  /\ Len(sm.scope_stack) >= 2
  /\ "x" \in DOMAIN sm.scope_stack[1]
  /\ "x" \in DOMAIN sm.scope_stack[Len(sm.scope_stack)]
  /\ sm.scope_stack[Len(sm.scope_stack)]["x"] # sm.scope_stack[1]["x"]
  /\ sm.symbol = sm.scope_stack[Len(sm.scope_stack)]["x"]

\* C27: when interpret has returned or raised, whatever ended the program
\* (its last statement, a break or continue, a runtime error, semantic
\* errors), current_env is the global environment again; and when a call
\* has ended normally, by return, or by a break or continue that leaves the
\* body of the procedure, the statements after it run in the environment
\* of the caller: they read the program variable a.
C27_EnvironmentsReleased ==
  /\ (pc \notin {"source", "file", "generating", "generated", "scoping"})
       => interp.env = InterpStart.env
  /\ (inp.kind = "frames" /\ inp.form # "call_error" /\ pc # "source")
       => /\ interp.status = "ok"
          /\ interp.out = Lines(CASE inp.form = "call_normal" -> <<0, inp.v>>
                                  [] inp.form = "call_return" -> <<2, inp.v>>
                                  [] inp.form = "call_break" -> <<0, inp.v>>
                                  [] OTHER -> <<0, 1, inp.v>>)

\* a call that a runtime error ended, inside the block of the program
C27_Witness ==
  /\ inp.kind = "frames" /\ inp.form = "call_error"
  /\ pc = "interpreted"
  /\ interp.status = "UndefinedVariable"
  /\ interp.env = InterpStart.env

\* the run of the statements of the program alone: the VM starts at the
\* first instruction after the bodies of the procedures, its stack empty
StatementsRun ==
  LET returns == Places(program.code, "RETURN")
  IN VMRunFrom([VMStart(program) EXCEPT !.ip = returns[Len(returns)]], program, MaxSteps)

\* C28: the code of the statements of an accepted program keeps the depth
\* of the operand stack: no run of compiled code pops from an empty stack,
\* a run that reaches HALT ends with the stack empty as it started, and
\* the statements of a program with procedures, run from their first
\* instruction, end at HALT without an error and with the stack empty: the
\* POP after a call statement takes off a value the call pushed.
C28_StatementsKeepStack ==
  /\ (Accepted /\ VMRan /\ cstatus = "ok")
       => /\ vm.error # "EmptyStack"
          /\ (vm.halted /\ vm.ip >= 0 /\ program.code[vm.ip + 1].opcode = "HALT")
                => vm.stack = <<>>
  /\ (inp.kind = "calls" /\ Compiled)
       => /\ StatementsRun.error = ""
          /\ StatementsRun.halted
          /\ StatementsRun.stack = <<>>

\* the addresses of the instructions of the bodies of the functions: from
\* the first address in the table of the generator to the last RETURN
DeclaresFunction == ast.block.func_decls # <<>>
BodyAddresses ==
  LET returns == Places(program.code, "RETURN")
      starts == {gen.functions[name] : name \in DOMAIN gen.functions}
  IN {a \in 0..(returns[Len(returns)] - 1) : \E b \in starts : b <= a}

\* C29: in the run from instruction 0 of the compiled code of an accepted
\* program that declares a function, the machine is at an instruction of
\* a function body only inside a call (the call stack holds a frame), and
\* a run that halts without an error has halted at the HALT that follows
\* the last statement of the program.
C29_BodiesRunOnlyWhenCalled ==
  (Accepted /\ DeclaresFunction /\ cstatus = "ok"
     /\ pc \in {"running", "ran", "optimized", "saved", "done"})
    => /\ vm.ip \in BodyAddresses => vm.call_stack # <<>>
       /\ (vm.halted /\ vm.error = "")
            => (vm.ip >= 0 /\ program.code[vm.ip + 1].opcode = "HALT")

\* the positions of code at which the loop of the peephole optimizer
\* rewrites: every turn that does something else than copy one instruction
RECURSIVE Rewrites(_, _)
Rewrites(code, i) ==
  IF i >= Len(code) THEN {}
  ELSE LET r == PeepholeAt(code, i)
       IN (IF r.used = 1 /\ r.out = <<code[i + 1]>> THEN {} ELSE {i})
            \cup Rewrites(code, i + r.used)

\* the machine after the instructions of a window, one after the other,
\* whatever the jumps among them do to ip; an error ends the window
RECURSIVE RunWindow(_, _)
RunWindow(machine, window) ==
  IF window = <<>> \/ machine.error # "" THEN machine
  ELSE RunWindow(execute_instruction(machine, window[1]), Tail(window))

\* the operand stacks a window is tried on: up to two small integers
WindowValues == {IntV(n) : n \in 0..MaxLit}
WindowStacks ==
  {<<>>} \cup {<<a>> : a \in WindowValues}
         \cup {<<a, b>> : a \in WindowValues, b \in WindowValues}

\* C30: every rewrite the peephole optimizer does in the code of a program
\* keeps the effect on the operand stack: on every stack on which the
\* instructions of the window run without an error, the instructions that
\* replace them run without an error and leave the same stack.
C30_PeepholeKeepsStack ==
  pc = "optimized"
    => \A i \in Rewrites(program.code, 0) : \A stack \in WindowStacks :
         LET r == PeepholeAt(program.code, i)
             start == [VMStart(program) EXCEPT !.stack = stack]
             before == RunWindow(start, SubSeq(program.code, i + 1, i + r.used))
             after == RunWindow(start, r.out)
         IN before.error = "" => (after.error = "" /\ after.stack = before.stack)

=============================================================================
